---- MODULE Spec2Model ----
(***************************************************************************)
(* LiftLogger 3.0: the relational store (supabase/schema.sql), the API     *)
(* handlers behind src/lib/api.ts and the workout page's reconciliation    *)
(* (src/app/workout/[id]/page.tsx, loadWorkout).                           *)
(*                                                                         *)
(* Spec      the store and the API handlers, called by clients (devices)   *)
(*           of several users; a handler that reads the store and then     *)
(*           writes it is two steps, and other requests run in between.    *)
(* SpecLog   logging sets into a workout while it is being finished.       *)
(* SpecOwner the routine store and the session handlers, one request at a  *)
(*           time, users acting on each other's rows.                      *)
(* SpecLoad  the workout page: loadWorkout, one step per awaited response. *)
(***************************************************************************)
EXTENDS Integers, Sequences, FiniteSets, TLC

\* ---------------------------------------------------------------- bounds
MaxWorkouts == 2       \* rows the workouts table may hold
MaxSetRows == 2        \* rows the workout_sets table may hold
MaxRoutines == 1       \* routines ever created
MaxOwnerWorkouts == 1  \* SpecOwner: workouts started
MaxTime == 2           \* the server clock stops here
MaxTargetSets == 3     \* largest target_sets of a routine exercise
MaxSearches == 2       \* search requests waiting at a time
MaxViewExercises == 3  \* most exercises shown on the workout page
MaxViewSets == 2       \* most sets of an exercise shown on the workout page
MaxSetsExercises == 2  \* SpecSets: most exercises shown on the workout page
PageLimit == 2         \* rows of a page of the history (the page asks for 20)

\* ---------------------------------------------------------------- domains
Null == 0              \* SQL NULL of an id or a timestamp column
NullName == "null"     \* SQL NULL of a text column

Users == {"u1", "u2"}
Clients == {"c1", "c2", "c3"}
\* c1 and c2 are two devices of u1, c3 is a device of u2.
UserOf(c) == IF c = "c3" THEN "u2" ELSE "u1"

ExerciseIds == {"e1", "e2"}
SetNumbers == {1, 2}
Weights == {40, 60}
RepCounts == {5, 8}
RoutineNames == {"Push", "Pull"}

Statuses == {"in_progress", "completed", "cancelled"}

\* formName.trim(), on the names used here.
Trim(name) == IF name = " " THEN "" ELSE name

\* One entry of a RoutineInput, with the editor's default targets.
Entry(e, i) == [exercise_id |-> e, order |-> i, target_sets |-> 3,
                target_reps_min |-> 8, target_reps_max |-> 12]
ExerciseLists == {<<Entry("e1", 0)>>, <<Entry("e2", 0), Entry("e1", 1)>>}

VARIABLES
  workouts,           \* table workouts: a set of rows
  workout_sets,       \* table workout_sets
  routines,           \* table routines
  routine_exercises,  \* table routine_exercises
  next_routine_id,    \* ids are fresh: routines are the only rows deleted
  now,                \* the server clock (NOW())
  pending,            \* per client: the handler that has read and not yet written
  resp,               \* the response of the last handler step
  loadPc,             \* workout page: the call loadWorkout is waiting for
  data,               \* workout page: const data = await getWorkout(workoutId)
  routine,            \* workout page: const routine = routines.find(...)
  exerciseArray,      \* workout page: the local exerciseArray of loadWorkout
  exercises,          \* workout page: useState exercises
  fetched,            \* workout page: the history responses taken so far
  redirected,         \* workout page: router.push("/dashboard") was called
  loading,            \* workout page: useState loading
  calls,              \* workout page: per connection, the handleLogSet call waiting
  dialogOpen,         \* routines page: useState dialogOpen
  editingRoutine,     \* routines page: the id of useState editingRoutine, or null
  formName,           \* routines page: useState formName
  formExercises,      \* routines page: useState formExercises
  saveRequest,        \* routines page: the RoutineInput handleSave is waiting on
  detail,             \* history detail page: useState workout
  searchQuery,        \* workout page: useState searchQuery
  searchResults,      \* workout page: useState searchResults
  searching,          \* workout page: useState searching
  searchCalls,        \* workout page: the handleSearch calls waiting
  showAddExercise,    \* workout page: useState showAddExercise
  historyList,        \* history page: useState workouts
  hasMore,            \* history page: useState hasMore
  loadingMore,        \* history page: useState loadingMore
  listLoading,        \* history page: useState loading
  listCall            \* history page: the loadHistory or loadMore call waiting

storeVars == <<workouts, workout_sets, routines, routine_exercises, next_routine_id, now>>
viewVars == <<loadPc, data, routine, exerciseArray, exercises, fetched, redirected, loading, calls>>
editorVars == <<dialogOpen, editingRoutine, formName, formExercises, saveRequest>>
searchVars == <<searchQuery, searchResults, searching, searchCalls, showAddExercise>>
listVars == <<historyList, hasMore, loadingMore, listLoading, listCall>>
vars == <<workouts, workout_sets, routines, routine_exercises, next_routine_id, now,
          pending, resp, loadPc, data, routine, exerciseArray, exercises, fetched,
          redirected,
          loading, calls, dialogOpen, editingRoutine, formName, formExercises,
          saveRequest, detail, searchQuery, searchResults, searching, searchCalls,
          showAddExercise, historyList, hasMore, loadingMore, listLoading, listCall>>

Idle == [op |-> "idle"]
\* A response: the handler, the caller, the id the request named, the kind
\* ("ok" or the error) and the ids of the rows returned.
RespData(op, c, id, kind, ids) ==
  [op |-> op, client |-> c, id |-> id, kind |-> kind, data |-> ids]
Resp(op, c, id, kind) == RespData(op, c, id, kind, {})
NoResp == Resp("none", "c1", Null, "ok")

\* ---------------------------------------------------------------- schema
\* CREATE TABLE workouts: primary key, status CHECK, routine_id foreign key.
\* No constraint ties user_id to status.
WorkoutsTableAccepts(row) ==
  /\ \A w \in workouts : w.id # row.id
  /\ row.status \in Statuses
  /\ row.routine_id # Null => \E r \in routines : r.id = row.routine_id

\* CREATE TABLE workout_sets: primary key and the workout_id foreign key;
\* the indexes on workout_id and exercise_id are not UNIQUE.
WorkoutSetsTableAccepts(row) ==
  /\ \A s \in workout_sets : s.id # row.id
  /\ \E w \in workouts : w.id = row.workout_id

\* Row level security: auth.uid() = user_id, or ownership through the parent.
RoutinesPolicy(uid, row) == uid = row.user_id

RoutineExercisesPolicy(uid, row) ==
  \E r \in routines : r.id = row.routine_id /\ r.user_id = uid

\* A workouts policy that lets every caller through.
WorkoutsPolicyAnyone(uid, row) == TRUE

WorkoutsPolicy(uid, row) == uid = row.user_id

WorkoutSetsPolicy(uid, row) ==
  \E w \in workouts : w.id = row.workout_id /\ w.user_id = uid

\* A routine_id reference that does not cascade: the rows stay.
KeepRoutineExercises(rid) == routine_exercises

\* ON DELETE CASCADE of routine_exercises.routine_id
CascadeRoutineExercises(rid) == {x \in routine_exercises : x.routine_id # rid}

\* A routine_id reference that cascades: the workouts of the routine go.
CascadeWorkouts(rid) == {w \in workouts : w.routine_id # rid}

\* ON DELETE SET NULL of workouts.routine_id
SetNullRoutineId(rid) ==
  {IF w.routine_id = rid THEN [w EXCEPT !.routine_id = Null] ELSE w : w \in workouts}

\* ---------------------------------------------------------------- helpers
Range(seq) == {seq[i] : i \in DOMAIN seq}

\* The array of f[1], ..., f[n], built element by element as Array.from and
\* Array.prototype.map build theirs.
RECURSIVE ArrayOf(_, _)
ArrayOf(f, n) == IF n = 0 THEN <<>> ELSE Append(ArrayOf(f, n - 1), f[n])

ActiveOf(uid) == {w \in workouts : w.user_id = uid /\ w.status = "in_progress"}

VisibleWorkout(uid, wid) == {w \in workouts : w.id = wid /\ WorkoutsPolicy(uid, w)}

VisibleRoutine(uid, rid) == {r \in routines : r.id = rid /\ RoutinesPolicy(uid, r)}

KeyRows(wid, e, n) ==
  {s \in workout_sets : s.workout_id = wid /\ s.exercise_id = e /\ s.set_number = n}

WorkoutIds == 1..MaxWorkouts
RoutineIds == 1..MaxRoutines

\* ---------------------------------------------------------------- client
\* apiRequest: the caller takes the response (returns the body, or throws on
\* a response that is not ok). The next request is handled after that.
Receive ==
  /\ resp # NoResp
  /\ resp' = NoResp
  /\ UNCHANGED <<storeVars, pending, viewVars, editorVars, detail, listVars, searchVars>>

\* ---------------------------------------------------------------- clock
Tick ==
  /\ now < MaxTime
  /\ now' = now + 1
  /\ UNCHANGED <<workouts, workout_sets, routines, routine_exercises,
                 next_routine_id, pending, resp>>

\* ---------------------------------------------------------------- start
\* StartCheck with the check for an active workout made only for a quick
\* workout (no routine_id).
StartCheckQuickOnly(c, rid) ==
  /\ pending[c] = Idle
  /\ IF ActiveOf(UserOf(c)) # {} /\ rid = Null
       THEN /\ resp' = Resp("start", c, rid, "ConflictError")
            /\ UNCHANGED pending
       ELSE /\ Cardinality(workouts)
                 + Cardinality({d \in Clients : pending[d].op = "start"}) < MaxWorkouts
            /\ pending' = [pending EXCEPT ![c] = [op |-> "start", routine_id |-> rid]]
            /\ UNCHANGED resp
  /\ UNCHANGED storeVars

\* POST /workouts/start, first step: the check for an active workout.
StartCheck(c, rid) ==
  /\ pending[c] = Idle
  /\ IF ActiveOf(UserOf(c)) # {}
       THEN /\ resp' = Resp("start", c, rid, "ConflictError")
            /\ UNCHANGED pending
       ELSE /\ Cardinality(workouts)
                 + Cardinality({d \in Clients : pending[d].op = "start"}) < MaxWorkouts
            /\ pending' = [pending EXCEPT ![c] = [op |-> "start", routine_id |-> rid]]
            /\ UNCHANGED resp
  /\ UNCHANGED storeVars

\* POST /workouts/start, second step: the insert.
StartInsert(c) ==
  /\ pending[c].op = "start"
  /\ LET uid == UserOf(c)
         rid == pending[c].routine_id
         id  == Cardinality(workouts) + 1
         row == [id |-> id, user_id |-> uid, routine_id |-> rid,
                 routine_name |-> IF rid = Null THEN NullName
                                  ELSE (CHOOSE r \in VisibleRoutine(uid, rid) : TRUE).name,
                 start_time |-> now, end_time |-> Null, status |-> "in_progress"]
     IN IF rid # Null /\ VisibleRoutine(uid, rid) = {}
          THEN /\ resp' = Resp("start_insert", c, rid, "NotFoundError")
               /\ UNCHANGED workouts
          ELSE /\ WorkoutsTableAccepts(row)
               /\ workouts' = workouts \cup {row}
               /\ resp' = RespData("start_insert", c, rid, "ok", {id})
  /\ pending' = [pending EXCEPT ![c] = Idle]
  /\ UNCHANGED <<workout_sets, routines, routine_exercises, next_routine_id, now>>

\* ---------------------------------------------------------------- finish
\* Finish without the status check: a finished workout is finished again.
FinishAgain(c, wid) ==
  /\ pending[c] = Idle
  /\ LET uid == UserOf(c)
         vis == VisibleWorkout(uid, wid)
     IN IF vis = {}
          THEN /\ resp' = Resp("finish", c, wid, "NotFoundError")
               /\ UNCHANGED workouts
          ELSE LET w == CHOOSE x \in vis : TRUE
               IN /\ workouts' = (workouts \ {w}) \cup
                       {[w EXCEPT !.end_time = now, !.status = "completed"]}
                  /\ resp' = Resp("finish", c, wid, "ok")
  /\ UNCHANGED <<workout_sets, routines, routine_exercises, next_routine_id, now, pending>>

\* Finish that flips the status and leaves end_time alone.
FinishNoEndTime(c, wid) ==
  /\ pending[c] = Idle
  /\ LET uid == UserOf(c)
         vis == VisibleWorkout(uid, wid)
     IN IF vis = {}
          THEN /\ resp' = Resp("finish", c, wid, "NotFoundError")
               /\ UNCHANGED workouts
          ELSE LET w == CHOOSE x \in vis : TRUE
               IN IF w.status # "in_progress"
                    THEN /\ resp' = Resp("finish", c, wid, "InvalidStateError")
                         /\ UNCHANGED workouts
                    ELSE /\ workouts' = (workouts \ {w}) \cup
                              {[w EXCEPT !.status = "completed"]}
                         /\ resp' = Resp("finish", c, wid, "ok")
  /\ UNCHANGED <<workout_sets, routines, routine_exercises, next_routine_id, now, pending>>

\* POST /workouts/{id}/finish
Finish(c, wid) ==
  /\ pending[c] = Idle
  /\ LET uid == UserOf(c)
         vis == VisibleWorkout(uid, wid)
     IN IF vis = {}
          THEN /\ resp' = Resp("finish", c, wid, "NotFoundError")
               /\ UNCHANGED workouts
          ELSE LET w == CHOOSE x \in vis : TRUE
               IN IF w.status # "in_progress"
                    THEN /\ resp' = Resp("finish", c, wid, "InvalidStateError")
                         /\ UNCHANGED workouts
                    ELSE /\ workouts' = (workouts \ {w}) \cup
                              {[w EXCEPT !.end_time = now, !.status = "completed"]}
                         /\ resp' = Resp("finish", c, wid, "ok")
  /\ UNCHANGED <<workout_sets, routines, routine_exercises, next_routine_id, now, pending>>

\* ---------------------------------------------------------------- logSet
\* POST /workouts/{id}/sets, first step: the workout is looked up (owner,
\* status) and so is the row of the key (workout, exercise, set_number).
LogSetCheck(c, wid, e, n, wt, r) ==
  /\ pending[c] = Idle
  /\ LET uid == UserOf(c)
         vis == VisibleWorkout(uid, wid)
     IN IF vis = {}
          THEN /\ resp' = Resp("logSet", c, wid, "NotFoundError")
               /\ UNCHANGED pending
          ELSE IF (CHOOSE x \in vis : TRUE).status # "in_progress"
            THEN /\ resp' = Resp("logSet", c, wid, "InvalidStateError")
                 /\ UNCHANGED pending
            ELSE /\ \E ex \in (IF KeyRows(wid, e, n) = {} THEN {Null}
                               ELSE {s.id : s \in KeyRows(wid, e, n)}) :
                      /\ ex = Null =>
                           Cardinality(workout_sets)
                             + Cardinality({d \in Clients : pending[d].op = "logSet"
                                                            /\ pending[d].existing = Null})
                             < MaxSetRows
                      /\ pending' = [pending EXCEPT ![c] =
                           [op |-> "logSet", workout_id |-> wid, exercise_id |-> e,
                            set_number |-> n, weight |-> wt, reps |-> r, existing |-> ex]]
                 /\ UNCHANGED resp
  /\ UNCHANGED storeVars

\* POST /workouts/{id}/sets, second step: update the row found, else insert.
LogSetWrite(c) ==
  /\ pending[c].op = "logSet"
  /\ LET p == pending[c]
         row == [id |-> Cardinality(workout_sets) + 1, workout_id |-> p.workout_id,
                 exercise_id |-> p.exercise_id, set_number |-> p.set_number,
                 weight |-> p.weight, reps |-> p.reps]
     IN IF p.existing # Null
          THEN workout_sets' =
                 {IF s.id = p.existing
                    THEN [s EXCEPT !.weight = p.weight, !.reps = p.reps]
                    ELSE s : s \in workout_sets}
          ELSE /\ WorkoutSetsTableAccepts(row)
               /\ WorkoutSetsPolicy(UserOf(c), row)
               /\ workout_sets' = workout_sets \cup {row}
  /\ resp' = Resp("logSet_write", c, pending[c].workout_id, "ok")
  /\ pending' = [pending EXCEPT ![c] = Idle]
  /\ UNCHANGED <<workouts, routines, routine_exercises, next_routine_id, now>>

\* ---------------------------------------------------------------- reads
\* GET /workouts/active: an in_progress workout of the caller, or null.
GetActive(c) ==
  /\ pending[c] = Idle
  /\ \E id \in (IF ActiveOf(UserOf(c)) = {} THEN {Null}
                ELSE {w.id : w \in ActiveOf(UserOf(c))}) :
       resp' = Resp("getActive", c, id, "ok")
  /\ UNCHANGED <<storeVars, pending>>

\* GET /workouts/{id}: the workout and its workout_sets.
GetWorkout(c, wid) ==
  /\ pending[c] = Idle
  /\ IF VisibleWorkout(UserOf(c), wid) = {}
       THEN resp' = Resp("getWorkout", c, wid, "NotFoundError")
       ELSE resp' = RespData("getWorkout", c, wid, "ok",
                             {s.id : s \in {x \in workout_sets : x.workout_id = wid}})
  /\ UNCHANGED <<storeVars, pending>>

\* ---------------------------------------------------------------- routines
\* The rows a routine's exercise list becomes: order is the array position.
ExerciseRows(rid, exs) ==
  {[routine_id |-> rid, exercise_id |-> exs[i].exercise_id, order |-> exs[i].order,
    target_sets |-> exs[i].target_sets, target_reps_min |-> exs[i].target_reps_min,
    target_reps_max |-> exs[i].target_reps_max] : i \in DOMAIN exs}

\* The validation with the name check alone.
ValidRoutineInputNameOnly(name, exs) == Trim(name) # ""

ValidRoutineInput(name, exs) ==
  /\ Trim(name) # ""
  /\ \A i \in DOMAIN exs : exs[i].target_reps_max >= exs[i].target_reps_min

\* POST /routines
CreateRoutine(c, name, exs) ==
  /\ pending[c] = Idle
  /\ next_routine_id <= MaxRoutines
  /\ IF ~ValidRoutineInput(name, exs)
       THEN /\ resp' = Resp("createRoutine", c, Null, "ValidationError")
            /\ UNCHANGED <<routines, routine_exercises, next_routine_id>>
       ELSE /\ routines' = routines \cup
                 {[id |-> next_routine_id, user_id |-> UserOf(c), name |-> name]}
            /\ routine_exercises' = routine_exercises \cup ExerciseRows(next_routine_id, exs)
            /\ next_routine_id' = next_routine_id + 1
            /\ resp' = Resp("createRoutine", c, next_routine_id, "ok")
  /\ UNCHANGED <<workouts, workout_sets, now, pending>>

\* UpdateRoutine that carries the new name into the workouts started from
\* the routine.
UpdateRoutineRenamesWorkouts(c, rid, name, exs) ==
  /\ pending[c] = Idle
  /\ IF VisibleRoutine(UserOf(c), rid) = {}
       THEN /\ resp' = Resp("updateRoutine", c, rid, "NotFoundError")
            /\ UNCHANGED <<routines, routine_exercises, workouts>>
       ELSE IF ~ValidRoutineInput(name, exs)
         THEN /\ resp' = Resp("updateRoutine", c, rid, "ValidationError")
              /\ UNCHANGED <<routines, routine_exercises, workouts>>
         ELSE /\ routines' = {IF r.id = rid THEN [r EXCEPT !.name = name] ELSE r
                               : r \in routines}
              /\ routine_exercises' = CascadeRoutineExercises(rid) \cup ExerciseRows(rid, exs)
              /\ workouts' = {IF w.routine_id = rid THEN [w EXCEPT !.routine_name = name]
                              ELSE w : w \in workouts}
              /\ resp' = Resp("updateRoutine", c, rid, "ok")
  /\ UNCHANGED <<workout_sets, next_routine_id, now, pending>>

\* PUT /routines/{id}: the name and the whole exercise list are replaced.
UpdateRoutine(c, rid, name, exs) ==
  /\ pending[c] = Idle
  /\ IF VisibleRoutine(UserOf(c), rid) = {}
       THEN /\ resp' = Resp("updateRoutine", c, rid, "NotFoundError")
            /\ UNCHANGED <<routines, routine_exercises>>
       ELSE IF ~ValidRoutineInput(name, exs)
         THEN /\ resp' = Resp("updateRoutine", c, rid, "ValidationError")
              /\ UNCHANGED <<routines, routine_exercises>>
         ELSE /\ routines' = {IF r.id = rid THEN [r EXCEPT !.name = name] ELSE r
                               : r \in routines}
              /\ routine_exercises' = CascadeRoutineExercises(rid) \cup ExerciseRows(rid, exs)
              /\ resp' = Resp("updateRoutine", c, rid, "ok")
  /\ UNCHANGED <<workouts, workout_sets, next_routine_id, now, pending>>

\* DELETE /routines/{id}
DeleteRoutine(c, rid) ==
  /\ pending[c] = Idle
  /\ IF VisibleRoutine(UserOf(c), rid) = {}
       THEN /\ resp' = Resp("deleteRoutine", c, rid, "NotFoundError")
            /\ UNCHANGED <<routines, routine_exercises, workouts>>
       ELSE /\ routines' = {r \in routines : r.id # rid}
            /\ routine_exercises' = CascadeRoutineExercises(rid)
            /\ workouts' = SetNullRoutineId(rid)
            /\ resp' = Resp("deleteRoutine", c, rid, "ok")
  /\ UNCHANGED <<workout_sets, next_routine_id, now, pending>>

\* GET /routines
ListRoutines(c) ==
  /\ pending[c] = Idle
  /\ resp' = RespData("listRoutines", c, Null, "ok",
                       {r.id : r \in {x \in routines : RoutinesPolicy(UserOf(c), x)}})
  /\ UNCHANGED <<storeVars, pending>>

\* ---------------------------------------------------------------- workout page
\* What apiRequest gives its caller: the body of an ok response, or a throw.
Returns(body) == [ok |-> TRUE, body |-> body]
Throws(body) == [ok |-> FALSE, body |-> body]

\* ExerciseData.previousBest left undefined
NoBest == [weight |-> Null, reps |-> Null]

\* No workout fetched yet.
NoData == [routine_name |-> NullName, workout_sets |-> <<>>]

\* routines.find gave undefined, or listRoutines was not called.
NoRoutine == [found |-> FALSE, exercises |-> <<>>]

\* No handleLogSet call is waiting on the connection.
NoCall == [exercise_id |-> "", set_number |-> Null, closure |-> <<>>]

\* The page as constructed: the useState defaults, loadWorkout called by the
\* effect and waiting for getWorkout.
ViewInit ==
  /\ loadPc = "getWorkout"
  /\ data = NoData
  /\ routine = NoRoutine
  /\ exerciseArray = <<>>
  /\ exercises = <<>>
  /\ fetched = <<>>
  /\ redirected = FALSE
  /\ loading = TRUE
  /\ calls = [c \in Clients |-> NoCall]

\* The placeholder sets of a routine exercise: Array.from({length: target_sets}).
PlaceholderSets(target_sets) ==
  ArrayOf([i \in 1..target_sets |->
             [id |-> Null, set_number |-> i, weight |-> 0, reps |-> 0, logged |-> FALSE]],
          target_sets)

\* exerciseMap as the sequence of its values in insertion order.
MapIndex(m, e) ==
  IF \E i \in DOMAIN m : m[i].exercise_id = e
    THEN CHOOSE i \in DOMAIN m : m[i].exercise_id = e
    ELSE 0

\* exerciseMap.set(key, value): a key already there keeps its position.
MapSet(m, value) ==
  IF MapIndex(m, value.exercise_id) = 0
    THEN Append(m, value)
    ELSE [m EXCEPT ![MapIndex(m, value.exercise_id)] = value]

\* routines.find(r => r.name === data.routine_name): the index of the first
\* routine of that name, 0 when there is none.
FindRoutine(list, name) ==
  IF \E i \in DOMAIN list : list[i].name = name
    THEN CHOOSE i \in DOMAIN list :
           /\ list[i].name = name
           /\ \A j \in 1..(i - 1) : list[j].name # name
    ELSE 0

\* for (const ex of routine.exercises) exerciseMap.set(ex.exercise_id, ...)
RECURSIVE SeedFrom(_, _)
SeedFrom(m, exs) ==
  IF exs = <<>> THEN m
  ELSE SeedFrom(MapSet(m, [exercise_id |-> Head(exs).exercise_id,
                           sets |-> PlaceholderSets(Head(exs).target_sets),
                           expanded |-> FALSE, previousBest |-> NoBest]),
                Tail(exs))

\* exercise.sets.findIndex(s => s.set_number === n): first index, 0 for -1.
FindSetIndex(sets, n) ==
  IF \E k \in DOMAIN sets : sets[k].set_number = n
    THEN CHOOSE k \in DOMAIN sets :
           /\ sets[k].set_number = n
           /\ \A j \in 1..(k - 1) : sets[j].set_number # n
    ELSE 0

\* The overlay without findIndex: every persisted set is pushed.
OverlaySetAlwaysPush(m, row) ==
  LET m1 == IF MapIndex(m, row.exercise_id) = 0
              THEN Append(m, [exercise_id |-> row.exercise_id, sets |-> <<>>,
                              expanded |-> FALSE, previousBest |-> NoBest])
              ELSE m
      i == MapIndex(m1, row.exercise_id)
  IN [m1 EXCEPT ![i].sets =
        Append(@, [id |-> row.id, set_number |-> row.set_number, weight |-> row.weight,
                   reps |-> row.reps, logged |-> TRUE])]

\* One persisted set laid over the map: the exercise is added when missing,
\* the entry of the set_number is replaced, or the set is pushed.
OverlaySet(m, row) ==
  LET m1 == IF MapIndex(m, row.exercise_id) = 0
              THEN Append(m, [exercise_id |-> row.exercise_id, sets |-> <<>>,
                              expanded |-> FALSE, previousBest |-> NoBest])
              ELSE m
      i == MapIndex(m1, row.exercise_id)
      k == FindSetIndex(m1[i].sets, row.set_number)
      logged == [id |-> row.id, set_number |-> row.set_number, weight |-> row.weight,
                 reps |-> row.reps, logged |-> TRUE]
  IN IF k > 0 THEN [m1 EXCEPT ![i].sets[k] = logged]
     ELSE [m1 EXCEPT ![i].sets = Append(@, logged)]

\* for (const set of data.workout_sets || [])
RECURSIVE Overlay(_, _)
Overlay(m, rows) ==
  IF rows = <<>> THEN m ELSE Overlay(OverlaySet(m, Head(rows)), Tail(rows))

\* sets.sort((a, b) => a.set_number - b.set_number): a stable sort.
RECURSIVE SortSets(_)
InsertSet(sorted, x) ==
  LET k == Cardinality({j \in DOMAIN sorted : sorted[j].set_number <= x.set_number})
  IN SubSeq(sorted, 1, k) \o <<x>> \o SubSeq(sorted, k + 1, Len(sorted))
SortSets(sets) ==
  IF sets = <<>> THEN <<>>
  ELSE InsertSet(SortSets(SubSeq(sets, 1, Len(sets) - 1)), sets[Len(sets)])

\* ex.sets.every(s => s.logged)
AllLogged(ex) == \A k \in DOMAIN ex.sets : ex.sets[k].logged

\* The loop from exercise i on: sort the sets; at the first exercise with a
\* set that is not logged, expand it and break.
RECURSIVE SortExpandFrom(_, _)
SortExpandFrom(arr, i) ==
  IF i > Len(arr) THEN arr
  ELSE LET sorted == [arr EXCEPT ![i].sets = SortSets(@)]
       IN IF ~AllLogged(sorted[i])
            THEN [sorted EXCEPT ![i].expanded = TRUE]
            ELSE SortExpandFrom(sorted, i + 1)

\* The loop without its break: every exercise is sorted, and every exercise
\* with a set that is not logged is expanded.
SortAndExpandAll(arr) ==
  ArrayOf([i \in DOMAIN arr |-> [arr[i] EXCEPT !.sets = SortSets(@),
                                              !.expanded = ~AllLogged(arr[i])]],
          Len(arr))

\* Find first incomplete exercise and expand it.
SortAndExpand(arr) == SortExpandFrom(arr, 1)

\* history.reduce((max, s) => s.weight > max.weight ? s : max, history[0])
RECURSIVE ReduceBest(_, _)
ReduceBest(max, history) ==
  IF history = <<>> THEN max
  ELSE ReduceBest(IF Head(history).weight > max.weight THEN Head(history) ELSE max,
                  Tail(history))
\* The reduce with >= for >: on ties the last entry is kept.
PreviousBestLastOnTies(history) ==
  LET F[i \in 1..Len(history)] ==
        IF i = 1 THEN history[1]
        ELSE IF history[i].weight >= F[i - 1].weight THEN history[i] ELSE F[i - 1]
  IN [weight |-> F[Len(history)].weight, reps |-> F[Len(history)].reps]

PreviousBest(history) ==
  LET best == ReduceBest(history[1], history)
  IN [weight |-> best.weight, reps |-> best.reps]

\* The catch of loadWorkout and its finally.
LoadFailed ==
  /\ redirected' = TRUE
  /\ loading' = FALSE
  /\ loadPc' = "returned"

\* From the exerciseMap to setExercises(exerciseArray); then the first history
\* request is out, or with no exercise loadWorkout returns.
Reconcile(m, rows) ==
  LET arr == SortAndExpand(Overlay(m, rows))
  IN /\ exerciseArray' = arr
     /\ exercises' = arr
     /\ redirected' = FALSE
     /\ IF arr = <<>>
          THEN loadPc' = "returned" /\ loading' = FALSE
          ELSE loadPc' = "history" /\ loading' = TRUE

\* await getWorkout(workoutId) returns or throws.
LoadGetWorkout(r) ==
  /\ loadPc = "getWorkout"
  /\ IF ~r.ok
       THEN /\ LoadFailed
            /\ UNCHANGED <<data, exerciseArray, exercises>>
       ELSE /\ data' = r.body
            /\ IF r.body.routine_name # NullName
                 THEN /\ loadPc' = "listRoutines"
                      /\ UNCHANGED <<exerciseArray, exercises, redirected, loading>>
                 ELSE Reconcile(<<>>, r.body.workout_sets)
  /\ UNCHANGED <<routine, fetched, calls, storeVars, pending, resp>>

\* await listRoutines() returns or throws.
LoadListRoutines(r) ==
  /\ loadPc = "listRoutines"
  /\ IF ~r.ok
       THEN /\ LoadFailed
            /\ UNCHANGED <<routine, exerciseArray, exercises>>
       ELSE LET i == FindRoutine(r.body, data.routine_name)
            IN /\ routine' = IF i = 0 THEN NoRoutine
                              ELSE [found |-> TRUE, exercises |-> r.body[i].exercises]
               /\ Reconcile(IF i = 0 THEN <<>> ELSE SeedFrom(<<>>, r.body[i].exercises),
                            data.workout_sets)
  /\ UNCHANGED <<data, fetched, calls, storeVars, pending, resp>>

\* The history loop with no try around the request: a throw reaches the
\* catch of loadWorkout.
LoadHistoryThrows(r) ==
  /\ loadPc = "history"
  /\ LET i == Len(fetched) + 1
     IN /\ fetched' = Append(fetched, r)
        /\ IF ~r.ok
             THEN /\ LoadFailed
                  /\ UNCHANGED <<exerciseArray, exercises>>
             ELSE /\ exerciseArray' =
                       IF r.body # <<>>
                         THEN [exerciseArray EXCEPT ![i].previousBest = PreviousBest(r.body)]
                         ELSE exerciseArray
                  /\ exercises' = exerciseArray'
                  /\ IF i = Len(exerciseArray)
                       THEN loadPc' = "returned" /\ loading' = FALSE
                       ELSE UNCHANGED <<loadPc, loading>>
                  /\ UNCHANGED redirected
  /\ UNCHANGED <<data, routine, calls, storeVars, pending, resp>>

\* await getExerciseHistory(ex.exercise_id) of the next exercise returns or
\* throws; a throw is caught and ignored. ex is the object the exercises
\* state holds too. After the last exercise setExercises([...exerciseArray])
\* and the finally.
LoadHistory(r) ==
  /\ loadPc = "history"
  /\ LET i == Len(fetched) + 1
     IN /\ fetched' = Append(fetched, r)
        /\ exerciseArray' =
             IF r.ok /\ r.body # <<>>
               THEN [exerciseArray EXCEPT ![i].previousBest = PreviousBest(r.body)]
               ELSE exerciseArray
        /\ exercises' = exerciseArray'
        /\ IF i = Len(exerciseArray)
             THEN loadPc' = "returned" /\ loading' = FALSE
             ELSE UNCHANGED <<loadPc, loading>>
  /\ UNCHANGED <<data, routine, redirected, calls, storeVars, pending, resp>>

\* {exercise.sets.filter(s => s.logged).length}/{exercise.sets.length} sets
CompletionCount(ex) ==
  <<Cardinality({k \in DOMAIN ex.sets : ex.sets[k].logged}), Len(ex.sets)>>

\* exercises.reduce((sum, ex) => sum + ex.sets.filter(s => s.logged).length, 0)
TotalSetsLogged ==
  LET F[i \in 0..Len(exercises)] ==
        IF i = 0 THEN 0
        ELSE F[i - 1] + Cardinality({k \in DOMAIN exercises[i].sets :
                                       exercises[i].sets[k].logged})
  IN F[Len(exercises)]

\* ex.sets.filter(s => s.logged).reduce((setSum, s) => setSum + s.weight * s.reps, 0)
LoggedVolume(sets) ==
  LET G[k \in 0..Len(sets)] ==
        IF k = 0 THEN 0
        ELSE G[k - 1] + (IF sets[k].logged THEN sets[k].weight * sets[k].reps ELSE 0)
  IN G[Len(sets)]

\* exercises.reduce((sum, ex) => sum + (the logged volume of ex), 0)
TotalVolume ==
  LET F[i \in 0..Len(exercises)] ==
        IF i = 0 THEN 0 ELSE F[i - 1] + LoggedVolume(exercises[i].sets)
  IN F[Len(exercises)]

\* The page shows the exercise list (not the spinner, not redirected).
Shown == loadPc = "returned" /\ ~redirected /\ ~loading

\* updateSet: the field of the set of that number is replaced. The inputs of
\* a logged set are disabled.
UpdateSet(i, k, field, value) ==
  /\ Shown
  /\ i \in DOMAIN exercises /\ k \in DOMAIN exercises[i].sets
  /\ ~exercises[i].sets[k].logged
  /\ LET n == exercises[i].sets[k].set_number
     IN exercises' =
          ArrayOf([x \in DOMAIN exercises |->
                     IF exercises[x].exercise_id # exercises[i].exercise_id
                       THEN exercises[x]
                       ELSE [exercises[x] EXCEPT !.sets =
                               ArrayOf([j \in DOMAIN @ |->
                                          IF @[j].set_number = n
                                            THEN IF field = "weight"
                                                   THEN [@[j] EXCEPT !.weight = value]
                                                   ELSE [@[j] EXCEPT !.reps = value]
                                            ELSE @[j]],
                                       Len(@))]],
                  Len(exercises))
  /\ UNCHANGED <<loadPc, data, routine, exerciseArray, fetched, redirected, loading, calls,
                 storeVars, pending, resp>>

\* The sets of the exercise with that set_number marked logged, in the
\* exercises the handler was created with.
MarkLogged(list, e, n) ==
  ArrayOf([i \in DOMAIN list |->
             IF list[i].exercise_id # e THEN list[i]
             ELSE [list[i] EXCEPT !.sets =
                     ArrayOf([j \in DOMAIN @ |->
                                IF @[j].set_number = n
                                  THEN [@[j] EXCEPT !.logged = TRUE] ELSE @[j]],
                             Len(@))]],
          Len(list))

\* handleLogSet without its first line: the request goes out whatever the
\* weight and the reps are.
HandleLogSetAnyValue(c, wid, i, k) ==
  /\ Shown
  /\ i \in DOMAIN exercises /\ k \in DOMAIN exercises[i].sets
  /\ ~exercises[i].sets[k].logged
  /\ calls[c] = NoCall
  /\ LET set == exercises[i].sets[k]
     IN /\ LogSetCheck(c, wid, exercises[i].exercise_id, set.set_number,
                       set.weight, set.reps)
        /\ calls' = [calls EXCEPT ![c] =
                       [exercise_id |-> exercises[i].exercise_id,
                        set_number |-> set.set_number, closure |-> exercises]]
  /\ UNCHANGED <<loadPc, data, routine, exerciseArray, exercises, fetched, redirected,
                 loading>>

\* handleLogSet up to its await: nothing happens unless weight and reps are
\* positive; else the request is sent and the server looks it up.
HandleLogSet(c, wid, i, k) ==
  /\ Shown
  /\ i \in DOMAIN exercises /\ k \in DOMAIN exercises[i].sets
  /\ ~exercises[i].sets[k].logged
  /\ calls[c] = NoCall
  /\ LET set == exercises[i].sets[k]
     IN IF set.weight <= 0 \/ set.reps <= 0
          THEN UNCHANGED <<calls, storeVars, pending, resp>>
          ELSE /\ LogSetCheck(c, wid, exercises[i].exercise_id, set.set_number,
                              set.weight, set.reps)
               /\ calls' = [calls EXCEPT ![c] =
                              [exercise_id |-> exercises[i].exercise_id,
                               set_number |-> set.set_number, closure |-> exercises]]
  /\ UNCHANGED <<loadPc, data, routine, exerciseArray, exercises, fetched, redirected,
                 loading>>

\* handleLogSet after its await: on an ok response the set is marked logged
\* in the exercises of the render the handler belongs to; a throw is logged.
LogSetReturns(c) ==
  /\ resp # NoResp /\ resp.client = c /\ resp.op \in {"logSet", "logSet_write"}
  /\ calls[c] # NoCall
  /\ resp' = NoResp
  /\ calls' = [calls EXCEPT ![c] = NoCall]
  /\ exercises' = IF resp.kind = "ok"
                    THEN MarkLogged(calls[c].closure, calls[c].exercise_id,
                                    calls[c].set_number)
                    ELSE exercises
  /\ UNCHANGED <<loadPc, data, routine, exerciseArray, fetched, redirected, loading,
                 storeVars, pending>>

\* ---------------------------------------------------------------- routines page
\* handleSave is not waiting.
NoRequest == [name |-> "", exercises |-> <<>>]

\* The page as constructed: the dialog closed, the form empty.
EditorInit ==
  /\ dialogOpen = FALSE
  /\ editingRoutine = Null
  /\ formName = ""
  /\ formExercises = <<>>
  /\ saveRequest = NoRequest

\* routine.exercises as list() returns them: the rows of the routine by
\* ascending order; rows of equal order come either way.
RoutineExercisesOf(rid) ==
  LET rows == {x \in routine_exercises : x.routine_id = rid}
      n == Cardinality(rows)
  IN {seq \in [1..n -> rows] :
        /\ \A i, j \in 1..n : i # j => seq[i] # seq[j]
        /\ \A i, j \in 1..n : i < j => seq[i].order <= seq[j].order}

FormEntry(x) ==
  [exercise_id |-> x.exercise_id, order |-> x.order, target_sets |-> x.target_sets,
   target_reps_min |-> x.target_reps_min, target_reps_max |-> x.target_reps_max]

OpenCreateDialog ==
  /\ ~dialogOpen
  /\ editingRoutine' = Null
  /\ formName' = ""
  /\ formExercises' = <<>>
  /\ dialogOpen' = TRUE
  /\ UNCHANGED <<saveRequest, storeVars, pending, resp, viewVars, detail, listVars, searchVars>>

\* openEditDialog(routine), the routine as the list of the page holds it
\* (loadRoutines follows every save).
OpenEditDialog(c, rid) ==
  /\ ~dialogOpen
  /\ VisibleRoutine(UserOf(c), rid) # {}
  /\ editingRoutine' = rid
  /\ formName' = (CHOOSE r \in VisibleRoutine(UserOf(c), rid) : TRUE).name
  /\ \E seq \in RoutineExercisesOf(rid) :
       formExercises' = ArrayOf([i \in DOMAIN seq |-> FormEntry(seq[i])], Len(seq))
  /\ dialogOpen' = TRUE
  /\ UNCHANGED <<saveRequest, storeVars, pending, resp, viewVars, detail, listVars, searchVars>>

\* The Cancel button, or the dialog dismissed.
CloseDialog ==
  /\ dialogOpen
  /\ dialogOpen' = FALSE
  /\ UNCHANGED <<editingRoutine, formName, formExercises, saveRequest,
                 storeVars, pending, resp, viewVars, detail, listVars, searchVars>>

SetFormName(name) ==
  /\ dialogOpen
  /\ formName' = name
  /\ UNCHANGED <<dialogOpen, editingRoutine, formExercises, saveRequest,
                 storeVars, pending, resp, viewVars, detail, listVars, searchVars>>

\* addExercise of the routines page: nothing when the form has the exercise.
EditorAddExercise(e) ==
  /\ dialogOpen
  /\ ~\E i \in DOMAIN formExercises : formExercises[i].exercise_id = e
  /\ formExercises' = Append(formExercises, Entry(e, Len(formExercises)))
  /\ UNCHANGED <<dialogOpen, editingRoutine, formName, saveRequest,
                 storeVars, pending, resp, viewVars, detail, listVars, searchVars>>

\* formExercises.filter((e) => e.exercise_id !== exerciseId)
FilterOut(list, e) ==
  LET F[i \in 0..Len(list)] ==
        IF i = 0 THEN <<>>
        ELSE IF list[i].exercise_id # e THEN Append(F[i - 1], list[i]) ELSE F[i - 1]
  IN F[Len(list)]

RemoveExercise(e) ==
  /\ dialogOpen
  /\ formExercises' = FilterOut(formExercises, e)
  /\ UNCHANGED <<dialogOpen, editingRoutine, formName, saveRequest,
                 storeVars, pending, resp, viewVars, detail, listVars, searchVars>>

UpdateExerciseTargets(e, field, value) ==
  /\ dialogOpen
  /\ formExercises' =
       ArrayOf([i \in DOMAIN formExercises |->
                  IF formExercises[i].exercise_id # e THEN formExercises[i]
                  ELSE IF field = "target_sets"
                    THEN [formExercises[i] EXCEPT !.target_sets = value]
                  ELSE IF field = "target_reps_min"
                    THEN [formExercises[i] EXCEPT !.target_reps_min = value]
                    ELSE [formExercises[i] EXCEPT !.target_reps_max = value]],
               Len(formExercises))
  /\ UNCHANGED <<dialogOpen, editingRoutine, formName, saveRequest,
                 storeVars, pending, resp, viewVars, detail, listVars, searchVars>>

\* The RoutineInput of handleSave, the entries keeping the order of the form.
RoutineInputKeepingOrder(name, list) ==
  [name |-> name,
   exercises |-> ArrayOf([i \in DOMAIN list |-> FormEntry(list[i])], Len(list))]

\* The RoutineInput of handleSave: order is the array index.
RoutineInputOf(name, list) ==
  [name |-> name,
   exercises |-> ArrayOf([i \in DOMAIN list |->
                            [FormEntry(list[i]) EXCEPT !.order = i - 1]], Len(list))]

\* handleSave up to its await: nothing with a blank name or while saving;
\* else the request goes out, an update when a routine is being edited.
HandleSave(c) ==
  /\ dialogOpen
  /\ saveRequest = NoRequest
  /\ Trim(formName) # ""
  /\ LET input == RoutineInputOf(formName, formExercises)
     IN /\ saveRequest' = input
        /\ IF editingRoutine # Null
             THEN UpdateRoutine(c, editingRoutine, input.name, input.exercises)
             ELSE CreateRoutine(c, input.name, input.exercises)
  /\ UNCHANGED <<dialogOpen, editingRoutine, formName, formExercises, viewVars, detail, listVars, searchVars>>

\* handleSave after its await: the dialog closes on an ok response, stays
\* open on an error.
SaveReturns(c) ==
  /\ resp # NoResp /\ resp.client = c
  /\ resp.op \in {"createRoutine", "updateRoutine"}
  /\ saveRequest # NoRequest
  /\ resp' = NoResp
  /\ saveRequest' = NoRequest
  /\ dialogOpen' = IF resp.kind = "ok" THEN FALSE ELSE dialogOpen
  /\ UNCHANGED <<editingRoutine, formName, formExercises, storeVars, pending, viewVars, detail, listVars, searchVars>>

\* ---------------------------------------------------------------- history
\* Sum of weight * reps over a set of workout_sets rows.
RECURSIVE SumVolume(_)
SumVolume(rows) ==
  IF rows = {} THEN 0
  ELSE LET x == CHOOSE y \in rows : TRUE
       IN x.weight * x.reps + SumVolume(rows \ {x})

\* The rows most recent first by start_time; rows of one start_time come in
\* any order.
MostRecentFirst(rows) ==
  LET n == Cardinality(rows)
  IN {seq \in [1..n -> rows] :
        /\ \A i, j \in 1..n : i # j => seq[i] # seq[j]
        /\ \A i, j \in 1..n : i < j => seq[i].start_time >= seq[j].start_time}

\* The summary of a completed workout: its id and its totals.
Summary(w) ==
  [id |-> w.id,
   total_volume |-> SumVolume({x \in workout_sets : x.workout_id = w.id}),
   total_sets |-> Cardinality({x \in workout_sets : x.workout_id = w.id})]

\* OFFSET offset LIMIT limit of an ordered result.
PageOf(seq, limit, offset) ==
  LET n == IF Len(seq) - offset < 0 THEN 0
           ELSE IF Len(seq) - offset < limit THEN Len(seq) - offset ELSE limit
  IN ArrayOf([i \in 1..n |-> Summary(seq[offset + i])], n)

\* A response whose body is an ordered list of rows.
RespRows(op, c, kind, rows) ==
  [op |-> op, client |-> c, id |-> Null, kind |-> kind,
   data |-> {rows[i].id : i \in DOMAIN rows}, rows |-> rows]

\* GET /history?limit=&offset=: the completed workouts of the caller, most
\* recent first, with their totals; the page of limit rows after offset.
GetHistory(c, limit, offset) ==
  /\ pending[c] = Idle
  /\ \E seq \in MostRecentFirst({v \in workouts : WorkoutsPolicy(UserOf(c), v)
                                                   /\ v.status = "completed"}) :
        resp' = RespRows("getHistory", c, "ok", PageOf(seq, limit, offset))
  /\ UNCHANGED <<storeVars, pending, viewVars, editorVars, detail, searchVars>>

\* ------------------------------------------------------------ history page
\* No call of the history page is waiting.
NoListCall == [fn |-> "none", closure |-> <<>>]

\* HistoryPage on mount: the useState initial values.
ListInit ==
  /\ historyList = <<>>
  /\ hasMore = TRUE
  /\ loadingMore = FALSE
  /\ listLoading = TRUE
  /\ listCall = NoListCall

\* apiRequest throws: the request failed before or at the server.
HistoryRequestFails(c) ==
  /\ pending[c] = Idle
  /\ resp' = RespRows("getHistory", c, "NetworkError", <<>>)
  /\ UNCHANGED <<storeVars, pending, viewVars, editorVars, detail, searchVars>>

\* The page is opened: useEffect calls loadHistory, up to
\* await getHistory(20, 0).
LoadHistoryList(c) ==
  /\ listCall = NoListCall
  /\ historyList' = <<>>
  /\ hasMore' = TRUE
  /\ loadingMore' = FALSE
  /\ listLoading' = TRUE
  /\ listCall' = [fn |-> "loadHistory", closure |-> <<>>]
  /\ \/ GetHistory(c, PageLimit, 0)
     \/ HistoryRequestFails(c)

\* The Load More button (shown while hasMore, disabled while loadingMore):
\* loadMore up to await getHistory(20, workouts.length).
LoadMore(c) ==
  /\ listCall = NoListCall
  /\ ~listLoading /\ hasMore /\ ~loadingMore
  /\ loadingMore' = TRUE
  /\ listCall' = [fn |-> "loadMore", closure |-> historyList]
  /\ \/ GetHistory(c, PageLimit, Len(historyList))
     \/ HistoryRequestFails(c)
  /\ UNCHANGED <<historyList, hasMore, listLoading>>

\* The rest of loadHistory or loadMore: setWorkouts and setHasMore when the
\* request returned, nothing but console.error when it threw, and the
\* finally block.
HistoryReturns ==
  /\ listCall # NoListCall
  /\ resp # NoResp /\ resp.op = "getHistory"
  /\ resp' = NoResp
  /\ IF resp.kind = "ok"
       THEN /\ historyList' = listCall.closure \o resp.rows
            /\ hasMore' = (Len(resp.rows) = PageLimit)
       ELSE UNCHANGED <<historyList, hasMore>>
  /\ listLoading' = IF listCall.fn = "loadHistory" THEN FALSE ELSE listLoading
  /\ loadingMore' = IF listCall.fn = "loadMore" THEN FALSE ELSE loadingMore
  /\ listCall' = NoListCall
  /\ UNCHANGED <<storeVars, pending, viewVars, editorVars, detail, searchVars>>

\* The history detail page has no workout yet.
NoDetail == [id |-> Null, workout_sets |-> <<>>]

\* workout_sets of GET /workouts/{id}: the rows of the workout, in any order.
WorkoutSetLists(wid) ==
  LET rows == {x \in workout_sets : x.workout_id = wid}
      n == Cardinality(rows)
  IN {seq \in [1..n -> rows] : \A i, j \in 1..n : i # j => seq[i] # seq[j]}

\* The sum of the weights alone.
DetailTotalWeight(sets) ==
  LET F[i \in 0..Len(sets)] == IF i = 0 THEN 0 ELSE F[i - 1] + sets[i].weight
  IN F[Len(sets)]

\* workout.workout_sets.reduce((sum, set) => sum + set.weight * set.reps, 0)
DetailTotalVolume(sets) ==
  LET F[i \in 0..Len(sets)] ==
        IF i = 0 THEN 0 ELSE F[i - 1] + sets[i].weight * sets[i].reps
  IN F[Len(sets)]

\* workout.workout_sets.length
DetailSetCount(sets) == Len(sets)

\* load of the history detail page: getWorkout, then setWorkout(data); a
\* throw leaves the page without workout.
LoadDetail(c, wid) ==
  /\ pending[c] = Idle
  /\ IF VisibleWorkout(UserOf(c), wid) = {}
       THEN /\ resp' = Resp("getWorkout", c, wid, "NotFoundError")
            /\ detail' = NoDetail
       ELSE \E seq \in WorkoutSetLists(wid) :
              /\ resp' = RespData("getWorkout", c, wid, "ok", {x.id : x \in Range(seq)})
              /\ detail' = [id |-> wid, workout_sets |-> seq]
  /\ UNCHANGED <<storeVars, pending, viewVars, editorVars, searchVars, listVars>>

\* ---------------------------------------------------------------- search
\* The catalog: e1 is "Bench Press", e2 is "Overhead Press".
\* GET /exercises/search?q=: the exercises whose name contains the query,
\* whatever the case; the endpoint serves a short query too.
SearchExercises(query) ==
  IF query \in {"", "pr", "e"} THEN <<"e1", "e2">>
  ELSE IF query \in {"b", "be", "ben"} THEN <<"e1">>
  ELSE IF query \in {"ov"} THEN <<"e2">>
  ELSE <<>>

SearchInit ==
  /\ searchQuery = ""
  /\ searchResults = <<>>
  /\ searching = FALSE
  /\ searchCalls = {}
  /\ showAddExercise = FALSE

\* results.filter(r => !existingIds.has(r.id))
FilterExisting(results, existingIds) ==
  LET F[i \in 0..Len(results)] ==
        IF i = 0 THEN <<>>
        ELSE IF results[i] \notin existingIds THEN Append(F[i - 1], results[i])
             ELSE F[i - 1]
  IN F[Len(results)]

\* handleSearch up to its await: a query under 2 characters empties the
\* results and sends nothing; else the request goes out. The call keeps
\* the exercises of its render.
HandleSearch(query) ==
  /\ Shown /\ showAddExercise
  /\ searchQuery' = query
  /\ IF Len(query) < 2
       THEN /\ searchResults' = <<>>
            /\ UNCHANGED <<searching, searchCalls>>
       ELSE /\ Cardinality(searchCalls) < MaxSearches
            /\ searching' = TRUE
            /\ searchCalls' = searchCalls \cup
                 {[query |-> query,
                   existingIds |-> {exercises[i].exercise_id : i \in DOMAIN exercises}]}
            /\ UNCHANGED searchResults
  /\ UNCHANGED <<showAddExercise, storeVars, pending, resp, viewVars, editorVars, detail, listVars>>

\* handleSearch after its await, for any of the calls waiting: the results
\* not yet in the workout are shown; a throw empties the results.
SearchReturns(call, ok) ==
  /\ call \in searchCalls
  /\ searchCalls' = searchCalls \ {call}
  /\ searchResults' = IF ok THEN FilterExisting(SearchExercises(call.query), call.existingIds)
                      ELSE <<>>
  /\ searching' = FALSE
  /\ UNCHANGED <<searchQuery, showAddExercise, storeVars, pending, resp, viewVars,
                 editorVars, detail, listVars>>

\* The Add Exercise button: setShowAddExercise(true).
OpenAddExercise ==
  /\ Shown /\ ~showAddExercise
  /\ showAddExercise' = TRUE
  /\ UNCHANGED <<searchQuery, searchResults, searching, searchCalls, storeVars, pending,
                 resp, viewVars, editorVars, detail, listVars>>

\* The dialog is dismissed: onOpenChange(false). The query and the results
\* stay as they are.
CloseAddExercise ==
  /\ showAddExercise
  /\ showAddExercise' = FALSE
  /\ UNCHANGED <<searchQuery, searchResults, searching, searchCalls, storeVars, pending,
                 resp, viewVars, editorVars, detail, listVars>>

\* addExercise putting the new exercise first: [newEntry, ...exercises].
AddExerciseFirst(e) ==
  /\ Shown /\ showAddExercise /\ ~searching
  /\ e \in Range(searchResults)
  /\ exercises' = <<[exercise_id |-> e,
                     sets |-> <<[id |-> Null, set_number |-> 1, weight |-> 0,
                                 reps |-> 0, logged |-> FALSE]>>,
                     expanded |-> TRUE, previousBest |-> NoBest]>> \o exercises
  /\ showAddExercise' = FALSE
  /\ searchQuery' = ""
  /\ searchResults' = <<>>
  /\ UNCHANGED <<searching, searchCalls, loadPc, data, routine, exerciseArray, fetched,
                 redirected, loading, calls, storeVars, pending, resp, editorVars, detail, listVars>>

\* addExercise: a result shown in the dialog is clicked. The exercise is
\* appended with one placeholder set, expanded; the dialog closes and the
\* search is emptied.
AddExercise(e) ==
  /\ Shown /\ showAddExercise /\ ~searching
  /\ e \in Range(searchResults)
  /\ exercises' = Append(exercises,
                         [exercise_id |-> e,
                          sets |-> <<[id |-> Null, set_number |-> 1, weight |-> 0,
                                      reps |-> 0, logged |-> FALSE]>>,
                          expanded |-> TRUE, previousBest |-> NoBest])
  /\ showAddExercise' = FALSE
  /\ searchQuery' = ""
  /\ searchResults' = <<>>
  /\ UNCHANGED <<searching, searchCalls, loadPc, data, routine, exerciseArray, fetched,
                 redirected, loading, calls, storeVars, pending, resp, editorVars, detail, listVars>>

\* The next number taken from the length: ex.sets.length + 1.
NextSetNumberByLength(sets) == Len(sets) + 1

\* Math.max(0, ...ex.sets.map(s => s.set_number)) + 1
NextSetNumber(sets) ==
  IF sets = <<>> THEN 1
  ELSE (CHOOSE n \in {sets[k].set_number : k \in DOMAIN sets} \cup {0} :
          \A k \in DOMAIN sets : sets[k].set_number <= n) + 1

\* The set addSetToExercise appends: weight and reps of
\* ex.sets[ex.sets.length - 1], or 0.
AddedSet(sets) ==
  [id |-> Null, set_number |-> NextSetNumber(sets),
   weight |-> IF sets = <<>> THEN 0 ELSE sets[Len(sets)].weight,
   reps |-> IF sets = <<>> THEN 0 ELSE sets[Len(sets)].reps,
   logged |-> FALSE]

\* addSetToExercise: the Add Set button of exercise i.
AddSetToExercise(i) ==
  /\ Shown
  /\ i \in DOMAIN exercises
  /\ exercises' =
       ArrayOf([x \in DOMAIN exercises |->
                  IF exercises[x].exercise_id # exercises[i].exercise_id THEN exercises[x]
                  ELSE [exercises[x] EXCEPT !.sets = Append(@, AddedSet(@))]],
               Len(exercises))
  /\ UNCHANGED <<loadPc, data, routine, exerciseArray, fetched, redirected, loading, calls,
                 storeVars, pending, resp>>

\* ---------------------------------------------------------------- spec
\* Spec: starting and finishing workouts, from two devices of u1 and one of
\* u2. The routines of the users exist already.
SeedRoutines ==
  {[id |-> 1, user_id |-> "u1", name |-> "Push"],
   [id |-> 2, user_id |-> "u2", name |-> "Pull"]}

Init ==
  /\ workouts = {}
  /\ workout_sets = {}
  /\ routines = SeedRoutines
  /\ routine_exercises = ExerciseRows(1, <<Entry("e1", 0)>>)
  /\ next_routine_id = 3
  /\ now = 1
  /\ pending = [c \in Clients |-> Idle]
  /\ resp = NoResp
  /\ ViewInit
  /\ EditorInit
  /\ detail = NoDetail
  /\ ListInit
  /\ SearchInit

Handlers ==
  \/ Tick
  \/ \E c \in Clients, rid \in {Null, 1, 2} : StartCheck(c, rid)
  \/ \E c \in Clients : StartInsert(c)
  \/ \E c \in Clients, wid \in WorkoutIds : Finish(c, wid)
  \/ \E c \in Clients : GetActive(c)

Next ==
  \/ Receive
  \/ resp = NoResp /\ Handlers /\ UNCHANGED <<viewVars, editorVars, detail, listVars, searchVars>>

Spec == Init /\ [][Next]_vars

\* ------------------------------------------------------------ claims, Spec
\* C1: every user has at most one in_progress workout, in every reachable
\* state, also when two start calls of the user interleave their check and
\* their insert.
AtMostOneInProgress == \A u \in Users : Cardinality(ActiveOf(u)) <= 1

\* C2: a start call of a user who has an in_progress workout fails with
\* ConflictError, with or without a routine_id, and changes no workout (nor
\* leaves an insert to come).
StartWhileActiveConflicts ==
  [][\A c \in Clients :
       (/\ pending[c] = Idle
        /\ ActiveOf(UserOf(c)) # {}
        /\ \/ pending'[c].op = "start"
           \/ resp' # resp /\ resp'.op = "start" /\ resp'.client = c)
       => /\ resp'.op = "start" /\ resp'.client = c /\ resp'.kind = "ConflictError"
          /\ workouts' = workouts
          /\ pending' = pending]_vars

\* C2, reached: a start that named a routine was refused with ConflictError
\* while the caller's workout is in progress.
StartConflictSeen ==
  /\ resp.op = "start" /\ resp.kind = "ConflictError" /\ resp.id # Null
  /\ ActiveOf(UserOf(resp.client)) # {}

\* C4: finish by its owner completes an in_progress workout with
\* end_time >= start_time; on a workout that is not in_progress it fails with
\* InvalidStateError and changes nothing.
FinishOnceOnly ==
  [][\A w \in workouts :
       (/\ resp' # resp /\ resp'.op = "finish" /\ resp'.id = w.id
        /\ UserOf(resp'.client) = w.user_id)
       => IF w.status = "in_progress"
            THEN /\ resp'.kind = "ok"
                 /\ \E t \in 1..MaxTime :
                      /\ t >= w.start_time
                      /\ workouts' = (workouts \ {w}) \cup
                           {[w EXCEPT !.end_time = t, !.status = "completed"]}
            ELSE /\ resp'.kind = "InvalidStateError"
                 /\ workouts' = workouts]_vars

\* C4, reached: a second finish was refused on a workout completed after its
\* start.
SecondFinishRefused ==
  /\ resp.op = "finish" /\ resp.kind = "InvalidStateError"
  /\ \E w \in workouts : /\ w.id = resp.id /\ w.status = "completed"
                         /\ w.end_time > w.start_time

\* C6: end_time is null exactly for the in_progress workouts, and an end_time
\* is never before start_time.
EndTimeIffNotInProgress ==
  \A w \in workouts :
    /\ (w.end_time = Null) <=> (w.status = "in_progress")
    /\ w.end_time # Null => w.end_time >= w.start_time

\* C6, reached: a completed workout next to one in progress.
CompletedAndInProgress ==
  \E w1, w2 \in workouts :
    /\ w1.status = "completed" /\ w1.end_time >= w1.start_time
    /\ w2.status = "in_progress" /\ w2.start_time > w1.start_time

\* SpecLog: logging sets into the workouts of u1 and u2 while they are being
\* finished.
SeedWorkouts ==
  {[id |-> 1, user_id |-> "u1", routine_id |-> 1, routine_name |-> "Push",
    start_time |-> 1, end_time |-> Null, status |-> "in_progress"]}

\* The sets logged: <<exercise_id, set_number, weight, reps>>.
LogInputs == {<<"e1", 1, 40, 8>>, <<"e1", 1, 60, 5>>, <<"e1", 2, 40, 8>>, <<"e2", 1, 60, 5>>}

InitLog ==
  /\ workouts = SeedWorkouts
  /\ workout_sets = {}
  /\ routines = SeedRoutines
  /\ routine_exercises = ExerciseRows(1, <<Entry("e1", 0)>>)
  /\ next_routine_id = 3
  /\ now = 1
  /\ pending = [c \in Clients |-> Idle]
  /\ resp = NoResp
  /\ ViewInit
  /\ EditorInit
  /\ detail = NoDetail
  /\ ListInit
  /\ SearchInit

HandlersLog ==
  \/ \E c \in Clients, in \in LogInputs : LogSetCheck(c, 1, in[1], in[2], in[3], in[4])
  \/ \E c \in Clients : LogSetWrite(c)
  \/ \E c \in Clients : Finish(c, 1)

NextLog ==
  \/ Receive
  \/ resp = NoResp /\ HandlersLog /\ UNCHANGED <<viewVars, editorVars, detail, listVars, searchVars>>

SpecLog == InitLog /\ [][NextLog]_vars

\* --------------------------------------------------------- claims, SpecLog
SetsOf(rows, wid) == {s \in rows : s.workout_id = wid}

\* C3: workout_sets holds at most one row per (workout_id, exercise_id,
\* set_number), for any interleaving of logSet calls.
OneRowPerKey ==
  \A s1, s2 \in workout_sets :
    (/\ s1.workout_id = s2.workout_id
     /\ s1.exercise_id = s2.exercise_id
     /\ s1.set_number = s2.set_number) => s1 = s2

\* C5: logSet on a workout that is not in_progress fails with
\* InvalidStateError, and no row of such a workout is added or changed.
NoSetAfterFinish ==
  [][\A w \in workouts :
       w.status # "in_progress"
       => /\ SetsOf(workout_sets', w.id) = SetsOf(workout_sets, w.id)
          /\ (/\ resp' # resp /\ resp'.op = "logSet" /\ resp'.id = w.id
              /\ UserOf(resp'.client) = w.user_id)
             => resp'.kind = "InvalidStateError"]_vars

\* SpecOwner: the routine store next to the session handlers, from an empty
\* store, with one device per user; the set logged is always the same one.
InitOwner ==
  /\ workouts = {}
  /\ workout_sets = {}
  /\ routines = {}
  /\ routine_exercises = {}
  /\ next_routine_id = 1
  /\ now = 1
  /\ pending = [c \in Clients |-> Idle]
  /\ resp = NoResp
  /\ ViewInit
  /\ EditorInit
  /\ detail = NoDetail
  /\ ListInit
  /\ SearchInit

OwnerClients == {"c1", "c3"}

HandlersOwner ==
  \/ \E c \in OwnerClients, rid \in RoutineIds \cup {Null} :
        Cardinality(workouts) < MaxOwnerWorkouts /\ StartCheck(c, rid)
  \/ \E c \in OwnerClients : StartInsert(c)
  \/ \E c \in OwnerClients, wid \in WorkoutIds : Finish(c, wid)
  \/ \E c \in OwnerClients, wid \in WorkoutIds : LogSetCheck(c, wid, "e1", 1, 40, 5)
  \/ \E c \in OwnerClients : LogSetWrite(c)
  \/ \E c \in OwnerClients, wid \in WorkoutIds : GetWorkout(c, wid)
  \/ \E c \in OwnerClients, name \in RoutineNames \cup {""}, exs \in ExerciseLists :
        CreateRoutine(c, name, exs)
  \/ \E c \in OwnerClients, rid \in RoutineIds, name \in RoutineNames \cup {""},
        exs \in ExerciseLists : UpdateRoutine(c, rid, name, exs)
  \/ \E c \in OwnerClients, rid \in RoutineIds : DeleteRoutine(c, rid)
  \/ \E c \in OwnerClients : ListRoutines(c)

\* One request at a time.
NextOwner ==
  \/ Receive
  \/ /\ resp = NoResp
     /\ HandlersOwner
     /\ Cardinality({c \in Clients : pending'[c] # Idle}) <= 1
     /\ UNCHANGED <<viewVars, editorVars, detail, listVars, searchVars>>

SpecOwner == InitOwner /\ [][NextOwner]_vars

\* ------------------------------------------------------- claims, SpecOwner
\* The rows that are not the user's own, directly or through the parent row.
OthersRoutines(R, u) == {r \in R : r.user_id # u}
OthersRoutineExercises(X, R, u) ==
  {x \in X : ~\E r \in R : r.id = x.routine_id /\ r.user_id = u}
OthersWorkouts(W, u) == {w \in W : w.user_id # u}
OthersSets(S, W, u) == {s \in S : ~\E w \in W : w.id = s.workout_id /\ w.user_id = u}

\* This step is a handler step of a request of client c.
ByClient(c) ==
  \/ resp' # resp /\ resp' # NoResp /\ resp'.client = c
  \/ pending'[c] # pending[c]

\* C7: a request of user U leaves every routine, routine_exercise, workout and
\* workout_set of the other users as it is, returns none of them, and is
\* refused with the store unchanged when the row it names is another user's.
OwnerOnly ==
  [][\A c \in Clients :
       ByClient(c) =>
         LET u == UserOf(c) IN
         /\ OthersRoutines(routines', u) = OthersRoutines(routines, u)
         /\ OthersRoutineExercises(routine_exercises', routines', u)
              = OthersRoutineExercises(routine_exercises, routines, u)
         /\ OthersWorkouts(workouts', u) = OthersWorkouts(workouts, u)
         /\ OthersSets(workout_sets', workouts', u) = OthersSets(workout_sets, workouts, u)
         /\ (/\ resp' # resp
             /\ resp'.op \in {"finish", "logSet", "getWorkout"}
             /\ \E w \in workouts : w.id = resp'.id /\ w.user_id # u)
            => /\ resp'.kind = "NotFoundError" /\ resp'.data = {}
               /\ UNCHANGED storeVars
         /\ (/\ resp' # resp
             /\ resp'.op \in {"updateRoutine", "deleteRoutine", "start_insert"}
             /\ \E r \in routines : r.id = resp'.id /\ r.user_id # u)
            => /\ resp'.kind = "NotFoundError" /\ resp'.data = {}
               /\ UNCHANGED storeVars
         /\ (resp' # resp /\ resp'.op = "listRoutines")
            => \A id \in resp'.data : \E r \in routines : r.id = id /\ r.user_id = u
         /\ (pending'[c] # pending[c] /\ pending'[c].op = "logSet")
            => \E w \in workouts : w.id = pending'[c].workout_id /\ w.user_id = u]_vars

\* C7, reached: a logSet on another user's workout, which holds a set and was
\* started from that user's routine, was refused.
ForeignLogSetRefused ==
  /\ resp.op = "logSet" /\ resp.kind = "NotFoundError"
  /\ \E w \in workouts :
       /\ w.id = resp.id /\ w.user_id # UserOf(resp.client)
       /\ SetsOf(workout_sets, w.id) # {}
       /\ \E x \in routine_exercises : x.routine_id = w.routine_id

\* C8: the routine_name of a workout is the routine's name when the workout is
\* inserted (null without a routine) and no later step changes it.
SnapshotKept ==
  [][/\ \A w \in workouts :
          \E w2 \in workouts' : w2.id = w.id /\ w2.routine_name = w.routine_name
     /\ \A w2 \in workouts' :
          (\A w \in workouts : w.id # w2.id)
          => IF w2.routine_id = Null
               THEN w2.routine_name = NullName
               ELSE \E r \in routines : r.id = w2.routine_id /\ r.name = w2.routine_name
    ]_vars

\* C8, reached: a workout whose routine has been renamed since the start.
RenamedAfterStart ==
  \E w \in workouts, r \in routines :
    w.routine_id = r.id /\ w.routine_name # NullName /\ w.routine_name # r.name

\* SpecLoad: the workout page loads a workout of u1. The responses are drawn
\* from the rows the store may hold: logged sets in any order, also twice
\* the same key; routines with their exercises in order.
RECURSIVE WithIds(_, _)
WithIds(ins, id) ==
  IF ins = <<>> THEN <<>>
  ELSE <<[id |-> id, exercise_id |-> Head(ins)[1], set_number |-> Head(ins)[2],
          weight |-> Head(ins)[3], reps |-> Head(ins)[4]]>> \o WithIds(Tail(ins), id + 1)

SetRowLists ==
  UNION {{WithIds(ins, 1) : ins \in [1..n -> LogInputs]} : n \in 0..MaxSetRows}

\* GET /workouts/{id}
WorkoutResponses ==
  {Throws(NoData)} \cup
  {Returns([routine_name |-> name, workout_sets |-> rows]) :
     name \in {NullName, "Push"}, rows \in SetRowLists}

TemplateEntries ==
  {[exercise_id |-> e, target_sets |-> t] : e \in ExerciseIds, t \in 1..MaxTargetSets}

Templates ==
  {<<>>} \cup {<<a>> : a \in TemplateEntries}
         \cup {<<a, b>> : a \in TemplateEntries, b \in TemplateEntries}

\* GET /routines
RoutineResponses ==
  {Throws(<<>>), Returns(<<>>)} \cup
  {Returns(<<[name |-> name, exercises |-> exs]>>) :
     name \in RoutineNames, exs \in Templates}

\* GET /exercises/{id}/history
HistoryResponses ==
  {Throws(<<>>), Returns(<<>>),
   Returns(<<[weight |-> 40, reps |-> 8], [weight |-> 60, reps |-> 5]>>),
   Returns(<<[weight |-> 60, reps |-> 5], [weight |-> 60, reps |-> 8]>>)}

InitLoad == InitLog

NextLoad ==
  \/ \E r \in WorkoutResponses : LoadGetWorkout(r) /\ UNCHANGED <<editorVars, detail, listVars, searchVars>>
  \/ \E r \in RoutineResponses : LoadListRoutines(r) /\ UNCHANGED <<editorVars, detail, listVars, searchVars>>
  \/ \E r \in HistoryResponses : LoadHistory(r) /\ UNCHANGED <<editorVars, detail, listVars, searchVars>>

SpecLoad == InitLoad /\ [][NextLoad]_vars

\* -------------------------------------------------------- claims, SpecLoad
\* Reconciliation has set the exercise list.
Reconciled == loadPc \in {"history", "returned"} /\ ~redirected

\* The first exercise of the list with a set that is not logged, 0 for none.
FirstIncomplete(list) ==
  IF \E i \in DOMAIN list : \E k \in DOMAIN list[i].sets : ~list[i].sets[k].logged
    THEN CHOOSE i \in DOMAIN list :
           /\ \E k \in DOMAIN list[i].sets : ~list[i].sets[k].logged
           /\ \A j \in 1..(i - 1) : \A k \in DOMAIN list[j].sets : list[j].sets[k].logged
    ELSE 0

\* C9: after reconciliation the expanded exercise is exactly the first one, in
\* mapping order, whose sets are not all logged; every other exercise is
\* collapsed, and none is expanded when all are fully logged.
ExpandedIsFirstIncomplete ==
  Reconciled =>
    \A i \in DOMAIN exercises :
      exercises[i].expanded <=> (i = FirstIncomplete(exercises))

LoggedCount(ex) == Cardinality({k \in DOMAIN ex.sets : ex.sets[k].logged})

\* C9, reached: A with 3 target sets and none logged is expanded, B after it
\* with 2 of 2 sets logged is collapsed.
FirstIncompleteExpanded ==
  /\ Reconciled /\ Len(exercises) = 2
  /\ Len(exercises[1].sets) = 3 /\ LoggedCount(exercises[1]) = 0
  /\ exercises[1].expanded
  /\ Len(exercises[2].sets) = 2 /\ LoggedCount(exercises[2]) = 2
  /\ ~exercises[2].expanded

\* C10: a history request that failed leaves its exercise without
\* previousBest and does not abort reconciliation: no redirect, the exercise
\* list stays displayed, the other exercises get their hint from their own
\* history, and loadWorkout returns only after asking for every exercise.
HistoryFailureIgnored ==
  \A i \in DOMAIN fetched :
    ~fetched[i].ok =>
      /\ ~redirected
      /\ exercises # <<>> /\ exercises = exerciseArray
      /\ exercises[i].previousBest = NoBest
      /\ \A j \in DOMAIN fetched :
           (fetched[j].ok /\ fetched[j].body # <<>>) =>
             /\ exercises[j].previousBest # NoBest
             /\ \E h \in DOMAIN fetched[j].body :
                  /\ exercises[j].previousBest.weight = fetched[j].body[h].weight
                  /\ exercises[j].previousBest.reps = fetched[j].body[h].reps
                  /\ \A g \in DOMAIN fetched[j].body :
                       fetched[j].body[g].weight <= fetched[j].body[h].weight
      /\ loadPc = "returned" => (Len(fetched) = Len(exercises) /\ ~loading)
      /\ loadPc # "returned" => (Len(fetched) < Len(exercises) /\ loading)

\* C10, reached: the history of the first exercise failed, the second
\* exercise has its hint, and the page shows the list.
HintAfterFailedHistory ==
  /\ loadPc = "returned" /\ ~redirected /\ ~loading
  /\ Len(exercises) = 2 /\ Len(fetched) = 2
  /\ ~fetched[1].ok /\ exercises[1].previousBest = NoBest
  /\ fetched[2].ok /\ exercises[2].previousBest = [weight |-> 60, reps |-> 5]

\* SpecPage: the workout page of u1 after loadWorkout, on two connections;
\* the workout was started from a routine with one exercise of two sets, and
\* a finish may arrive meanwhile (the finish dialog, another tab).
PageClients == {"c1", "c2"}
PageWeights == {-40, 0, 40}
PageReps == {0, 8}

PageTemplate == <<[exercise_id |-> "e1", target_sets |-> 2]>>

InitPage ==
  /\ workouts = SeedWorkouts
  /\ workout_sets = {}
  /\ routines = SeedRoutines
  /\ routine_exercises =
       ExerciseRows(1, <<[Entry("e1", 0) EXCEPT !.target_sets = 2]>>)
  /\ next_routine_id = 3
  /\ now = 1
  /\ pending = [c \in Clients |-> Idle]
  /\ resp = NoResp
  /\ loadPc = "returned"
  /\ data = [routine_name |-> "Push", workout_sets |-> <<>>]
  /\ routine = [found |-> TRUE, exercises |-> PageTemplate]
  /\ exerciseArray = SortAndExpand(SeedFrom(<<>>, PageTemplate))
  /\ exercises = exerciseArray
  /\ fetched = <<Returns(<<>>)>>
  /\ redirected = FALSE
  /\ loading = FALSE
  /\ calls = [c \in Clients |-> NoCall]
  /\ EditorInit
  /\ detail = NoDetail
  /\ ListInit
  /\ SearchInit

NextPage ==
  \/ \E c \in PageClients : LogSetReturns(c) /\ UNCHANGED <<editorVars, detail, listVars, searchVars>>
  \/ resp.op = "finish" /\ Receive
  \/ /\ resp = NoResp
     /\ UNCHANGED <<editorVars, detail, listVars, searchVars>>
     /\ \/ \E i \in 1..1, k \in 1..2, v \in PageWeights : UpdateSet(i, k, "weight", v)
        \/ \E i \in 1..1, k \in 1..2, v \in PageReps : UpdateSet(i, k, "reps", v)
        \/ \E c \in PageClients, i \in 1..1, k \in 1..2 : HandleLogSet(c, 1, i, k)
        \/ \E c \in PageClients : LogSetWrite(c) /\ UNCHANGED viewVars
        \/ \E c \in PageClients : Finish(c, 1) /\ UNCHANGED viewVars

SpecPage == InitPage /\ [][NextPage]_vars

\* -------------------------------------------------------- claims, SpecPage
\* C11: handleLogSet sends a logSet request only for a set with weight > 0 and
\* reps > 0, and with any other set it leaves the page as it is; so every row
\* of workout_sets written through the page has weight > 0 and reps > 0.
OnlyPositiveSetsLogged ==
  /\ \A s \in workout_sets : s.weight > 0 /\ s.reps > 0
  /\ \A c \in Clients :
       /\ pending[c].op = "logSet" => (pending[c].weight > 0 /\ pending[c].reps > 0)
       /\ calls[c] # NoCall =>
            \E i \in DOMAIN calls[c].closure :
              /\ calls[c].closure[i].exercise_id = calls[c].exercise_id
              /\ \E k \in DOMAIN calls[c].closure[i].sets :
                   LET set == calls[c].closure[i].sets[k]
                   IN /\ set.set_number = calls[c].set_number
                      /\ set.weight > 0 /\ set.reps > 0

\* C11, reached: a set was logged while the other set of the exercise has a
\* negative weight and no reps, and is in no request and no row.
PositiveLoggedNextToUnloggable ==
  /\ \E s \in workout_sets : s.set_number = 1 /\ s.weight = 40 /\ s.reps = 8
  /\ exercises[1].sets[1].logged
  /\ exercises[1].sets[2].weight = -40 /\ exercises[1].sets[2].reps = 0
  /\ ~exercises[1].sets[2].logged
  /\ \A c \in Clients : calls[c] = NoCall

\* SpecEditor: the routines page of u1 on c1, on an empty store; c2 (u1) calls
\* the API without the page, with exercise lists the form does not produce.
EditorNames == {"", " ", "Push", "Pull"}
TargetInputs == {<<"target_reps_max", 5>>, <<"target_reps_max", 12>>}
ApiExerciseLists == {<<Entry("e1", 0), Entry("e1", 1)>>, <<Entry("e2", 1), Entry("e1", 0)>>}

InitEditor ==
  /\ workouts = {}
  /\ workout_sets = {}
  /\ routines = {}
  /\ routine_exercises = {}
  /\ next_routine_id = 1
  /\ now = 1
  /\ pending = [c \in Clients |-> Idle]
  /\ resp = NoResp
  /\ ViewInit
  /\ EditorInit
  /\ detail = NoDetail
  /\ ListInit
  /\ SearchInit

NextEditor ==
  \/ SaveReturns("c1")
  \/ (resp.client = "c2" \/ resp.op = "deleteRoutine") /\ Receive
  \/ /\ resp = NoResp
     /\ \/ OpenCreateDialog
        \/ \E rid \in RoutineIds : OpenEditDialog("c1", rid)
        \/ CloseDialog
        \/ \E name \in EditorNames : SetFormName(name)
        \/ \E e \in ExerciseIds : EditorAddExercise(e)
        \/ \E e \in ExerciseIds : RemoveExercise(e)
        \/ \E e \in ExerciseIds, in \in TargetInputs : UpdateExerciseTargets(e, in[1], in[2])
        \/ HandleSave("c1")
        \/ \E name \in {" ", "Pull"}, exs \in ApiExerciseLists :
              CreateRoutine("c2", name, exs) /\ UNCHANGED <<viewVars, editorVars, detail, listVars, searchVars>>
        \/ \E rid \in RoutineIds : DeleteRoutine("c1", rid) /\ UNCHANGED <<viewVars, editorVars, detail, listVars, searchVars>>

SpecEditor == InitEditor /\ [][NextEditor]_vars

\* ------------------------------------------------------ claims, SpecEditor
\* An entry of a RoutineInput with target_reps_max below target_reps_min.
HasBadReps(exs) == \E i \in DOMAIN exs : exs[i].target_reps_max < exs[i].target_reps_min

\* C12: a save whose name is blank after trimming or that has an entry with
\* target_reps_max < target_reps_min fails with ValidationError and stores
\* nothing (NotFoundError, when the routine to update is gone); every stored
\* routine_exercise has target_reps_max >= target_reps_min, whatever the form
\* went through.
InvalidRoutineRefused ==
  [][/\ \A x \in routine_exercises' : x.target_reps_max >= x.target_reps_min
     /\ \A r \in routines' : Trim(r.name) # ""
     /\ (/\ saveRequest' # saveRequest /\ saveRequest' # NoRequest
         /\ HasBadReps(saveRequest'.exercises) \/ Trim(saveRequest'.name) = "")
        => /\ resp'.kind \in {"ValidationError", "NotFoundError"}
           /\ resp'.kind = "NotFoundError" => \A r \in routines : r.id # resp'.id
           /\ UNCHANGED storeVars
     /\ (resp' # resp /\ resp'.kind = "ValidationError") => UNCHANGED storeVars
    ]_vars

\* C12, reached: the update of a stored routine was refused for an entry
\* with target_reps_max 5 under target_reps_min 8.
BadRepsRefused ==
  /\ resp.op = "updateRoutine" /\ resp.kind = "ValidationError"
  /\ HasBadReps(saveRequest.exercises) /\ Trim(saveRequest.name) # ""
  /\ \E x \in routine_exercises : x.routine_id = resp.id

\* C13: no routine holds two entries of the same exercise_id, in the store
\* (a save that repeats an exercise_id is rejected) and in the form.
NoRepeatedExercise ==
  /\ \A x, y \in routine_exercises :
       (x.routine_id = y.routine_id /\ x.exercise_id = y.exercise_id) => x = y
  /\ \A i, j \in DOMAIN formExercises :
       formExercises[i].exercise_id = formExercises[j].exercise_id => i = j

\* C14: the exercises handleSave submits are those of the form in array
\* order, with order values 0..n-1 equal to the array position, whatever
\* order values the form holds.
SaveRenumbersOrder ==
  saveRequest # NoRequest =>
    /\ Len(saveRequest.exercises) = Len(formExercises)
    /\ \A i \in DOMAIN saveRequest.exercises :
         /\ saveRequest.exercises[i].order = i - 1
         /\ saveRequest.exercises[i].exercise_id = formExercises[i].exercise_id
         /\ saveRequest.exercises[i].target_sets = formExercises[i].target_sets
         /\ saveRequest.exercises[i].target_reps_min = formExercises[i].target_reps_min
         /\ saveRequest.exercises[i].target_reps_max = formExercises[i].target_reps_max

\* C14, reached: a save of two exercises, accepted, from a form whose entries
\* both hold order 1 after a remove and an add.
SavedFromStaleOrder ==
  /\ saveRequest # NoRequest /\ resp.kind = "ok"
  /\ Len(formExercises) = 2
  /\ formExercises[1].order = 1 /\ formExercises[2].order = 1
  /\ \E x \in routine_exercises : x.routine_id = resp.id /\ x.order = 0

\* SpecRoutines: two routines of u1 and one of u2, each with its exercises,
\* and a workout in progress started from routine 1; routines are listed,
\* replaced and deleted.
OwnedRoutines ==
  SeedRoutines \cup {[id |-> 3, user_id |-> "u1", name |-> "Pull"]}

InitRoutines ==
  /\ workouts = SeedWorkouts
  /\ workout_sets = {}
  /\ routines = OwnedRoutines
  /\ routine_exercises =
       ExerciseRows(1, <<Entry("e1", 0)>>) \cup ExerciseRows(2, <<Entry("e2", 0)>>)
         \cup ExerciseRows(3, <<Entry("e2", 0), Entry("e1", 1)>>)
  /\ next_routine_id = 4
  /\ now = 1
  /\ pending = [c \in Clients |-> Idle]
  /\ resp = NoResp
  /\ ViewInit
  /\ EditorInit
  /\ detail = NoDetail
  /\ ListInit
  /\ SearchInit

NextRoutines ==
  \/ Receive
  \/ /\ resp = NoResp
     /\ UNCHANGED <<viewVars, editorVars, detail, listVars, searchVars>>
     /\ \/ \E c \in OwnerClients, rid \in 1..3 : DeleteRoutine(c, rid)
        \/ \E c \in OwnerClients, rid \in 1..3, name \in RoutineNames,
              exs \in ExerciseLists : UpdateRoutine(c, rid, name, exs)
        \/ \E c \in OwnerClients : ListRoutines(c)

SpecRoutines == InitRoutines /\ [][NextRoutines]_vars

\* ---------------------------------------------------- claims, SpecRoutines
\* C15: after a delete of a routine that succeeded, routine_exercises holds
\* no row of that routine, and the rows of the other routines are as before.
DeleteCascades ==
  [][(resp' # resp /\ resp'.op = "deleteRoutine" /\ resp'.kind = "ok")
       => /\ \A r \in routines' : r.id # resp'.id
          /\ \A x \in routine_exercises' : x.routine_id # resp'.id
          /\ {x \in routine_exercises' : x.routine_id # resp'.id}
               = {x \in routine_exercises : x.routine_id # resp'.id}
          /\ \A x \in routine_exercises' : \E r \in routines' : r.id = x.routine_id
    ]_vars

\* C15, reached: routine 3 with its two exercises was deleted; the rows of
\* the routines 1 and 2 are there.
DeletedWithOthersLeft ==
  /\ resp.op = "deleteRoutine" /\ resp.kind = "ok" /\ resp.id = 3
  /\ \E x \in routine_exercises : x.routine_id = 1
  /\ \E x \in routine_exercises : x.routine_id = 2
  /\ \A x \in routine_exercises : x.routine_id # 3

\* SpecHistory: a workout of u1 that holds one set and a workout of u2; sets
\* are logged, the workouts finished, the history and the detail page read.
HistoryInputs == {<<"e1", 2, 80, 12>>, <<"e1", 1, 100, 10>>}

InitHistory ==
  /\ workouts = SeedWorkouts \cup
       {[id |-> 2, user_id |-> "u2", routine_id |-> Null, routine_name |-> NullName,
         start_time |-> 1, end_time |-> Null, status |-> "in_progress"]}
  /\ workout_sets = {[id |-> 1, workout_id |-> 1, exercise_id |-> "e1",
                      set_number |-> 1, weight |-> 100, reps |-> 10]}
  /\ routines = SeedRoutines
  /\ routine_exercises = ExerciseRows(1, <<Entry("e1", 0)>>)
  /\ next_routine_id = 3
  /\ now = 1
  /\ pending = [c \in Clients |-> Idle]
  /\ resp = NoResp
  /\ ViewInit
  /\ EditorInit
  /\ detail = NoDetail
  /\ ListInit
  /\ SearchInit

NextHistory ==
  \/ Receive
  \/ /\ resp = NoResp
     /\ \/ \E c \in OwnerClients, wid \in WorkoutIds, in \in HistoryInputs :
              /\ LogSetCheck(c, wid, in[1], in[2], in[3], in[4])
              /\ UNCHANGED <<viewVars, editorVars, detail, listVars, searchVars>>
        \/ \E c \in OwnerClients : LogSetWrite(c) /\ UNCHANGED <<viewVars, editorVars, detail, listVars, searchVars>>
        \/ \E c \in OwnerClients, wid \in WorkoutIds :
              Finish(c, wid) /\ UNCHANGED <<viewVars, editorVars, detail, listVars, searchVars>>
        \/ \E c \in OwnerClients : GetHistory(c, PageLimit, 0) /\ UNCHANGED listVars
        \/ \E c \in OwnerClients, wid \in WorkoutIds : LoadDetail(c, wid)

SpecHistory == InitHistory /\ [][NextHistory]_vars

\* ----------------------------------------------------- claims, SpecHistory
\* C16: the total_volume the history reports for a workout is the sum of
\* weight * reps over exactly the rows of that workout and total_sets is
\* their number; the history detail page computes the same sum and count
\* from the workout_sets it is given.
TotalsAreSumAndCount ==
  [][/\ (resp' # resp /\ resp'.op = "getHistory")
          => \A h \in Range(resp'.rows) :
               /\ h.total_volume = SumVolume(SetsOf(workout_sets, h.id))
               /\ h.total_sets = Cardinality(SetsOf(workout_sets, h.id))
               /\ \A s \in workout_sets :
                    (s.workout_id = h.id /\ h.total_sets = 1)
                    => h.total_volume = s.weight * s.reps
     /\ (detail' # detail /\ detail' # NoDetail)
          => /\ DetailTotalVolume(detail'.workout_sets)
                  = SumVolume(SetsOf(workout_sets, detail'.id))
             /\ DetailSetCount(detail'.workout_sets)
                  = Cardinality(SetsOf(workout_sets, detail'.id))
    ]_vars

\* C16, reached: the detail page shows the workout with the sets (100, 10)
\* and (80, 12): 1960 and 2.
Volume1960 ==
  /\ detail.id = 1
  /\ {<<x.weight, x.reps>> : x \in Range(detail.workout_sets)} = {<<100, 10>>, <<80, 12>>}
  /\ DetailTotalVolume(detail.workout_sets) = 1960
  /\ DetailSetCount(detail.workout_sets) = 2

\* SpecSearch: the add-exercise search of the workout page, the workout
\* loaded without sets; the user types and deletes characters.
Queries == {"", "b", "be", "ben", "ov", "pr"}

InitSearch ==
  /\ workouts = SeedWorkouts
  /\ workout_sets = {}
  /\ routines = SeedRoutines
  /\ routine_exercises = ExerciseRows(1, <<Entry("e1", 0)>>)
  /\ next_routine_id = 3
  /\ now = 1
  /\ pending = [c \in Clients |-> Idle]
  /\ resp = NoResp
  /\ loadPc = "returned"
  /\ data = [routine_name |-> NullName, workout_sets |-> <<>>]
  /\ routine = NoRoutine
  /\ exerciseArray = <<>>
  /\ exercises = <<>>
  /\ fetched = <<>>
  /\ redirected = FALSE
  /\ loading = FALSE
  /\ calls = [c \in Clients |-> NoCall]
  /\ EditorInit
  /\ detail = NoDetail
  /\ ListInit
  /\ SearchInit

NextSearch ==
  \/ OpenAddExercise
  \/ CloseAddExercise
  \/ \E query \in Queries : HandleSearch(query)
  \/ \E call \in searchCalls, ok \in BOOLEAN : SearchReturns(call, ok)

SpecSearch == InitSearch /\ [][NextSearch]_vars

\* ------------------------------------------------------ claims, SpecSearch
\* C17: whenever the search query has fewer than 2 characters the result
\* list is empty, also when the response to an earlier, longer query arrives
\* after the query was shortened.
ShortQueryShowsNothing == Len(searchQuery) < 2 => searchResults = <<>>

\* ------------------------------------------------- further claims, SpecLoad
\* C18: after reconciliation the sets of every exercise are in ascending
\* set_number order, for every routine template and every order of the
\* persisted sets.
SetsSortedAfterReconcile ==
  Reconciled =>
    \A i \in DOMAIN exercises :
      \A k, l \in DOMAIN exercises[i].sets :
        k < l => exercises[i].sets[k].set_number <= exercises[i].sets[l].set_number

\* SpecReload: the workout page loads workout 1 of u1, started from routine 1
\* ("Push"); u1 has a second routine, and routines are renamed and replaced
\* before and while the page loads. The responses are read from the store.
WorkoutResponsesOf(c, wid) ==
  IF VisibleWorkout(UserOf(c), wid) = {} THEN {Throws(NoData)}
  ELSE {Returns([routine_name |-> (CHOOSE w \in VisibleWorkout(UserOf(c), wid) : TRUE).routine_name,
                 workout_sets |-> seq]) : seq \in WorkoutSetLists(wid)}

\* GET /routines: the caller's routines in any order, each with its exercises.
RoutineListsOf(c) ==
  LET own == {r \in routines : RoutinesPolicy(UserOf(c), r)}
      n == Cardinality(own)
  IN {list \in [1..n -> {[name |-> r.name, exercises |-> exs] :
                           r \in own, exs \in UNION {RoutineExercisesOf(q.id) : q \in own}}] :
        \E perm \in [1..n -> own] :
          /\ \A i, j \in 1..n : i # j => perm[i] # perm[j]
          /\ \A i \in 1..n : /\ list[i].name = perm[i].name
                             /\ list[i].exercises \in RoutineExercisesOf(perm[i].id)}

\* The page is opened again: a new page, the calls of the old one are gone
\* with it.
Reload ==
  /\ loadPc = "returned"
  /\ loadPc' = "getWorkout"
  /\ data' = NoData
  /\ routine' = NoRoutine
  /\ exerciseArray' = <<>>
  /\ exercises' = <<>>
  /\ fetched' = <<>>
  /\ redirected' = FALSE
  /\ loading' = TRUE
  /\ calls' = [c \in Clients |-> NoCall]
  /\ searchQuery' = ""
  /\ searchResults' = <<>>
  /\ searching' = FALSE
  /\ searchCalls' = {}
  /\ showAddExercise' = FALSE
  /\ UNCHANGED <<storeVars, pending, resp, editorVars, detail, listVars>>

InitReload ==
  /\ workouts = SeedWorkouts
  /\ workout_sets = {}
  /\ routines = OwnedRoutines
  /\ routine_exercises =
       ExerciseRows(1, <<Entry("e1", 0)>>) \cup ExerciseRows(2, <<Entry("e2", 0)>>)
         \cup ExerciseRows(3, <<Entry("e2", 0), Entry("e1", 1)>>)
  /\ next_routine_id = 4
  /\ now = 1
  /\ pending = [c \in Clients |-> Idle]
  /\ resp = NoResp
  /\ ViewInit
  /\ EditorInit
  /\ detail = NoDetail
  /\ ListInit
  /\ SearchInit

NextReload ==
  \/ Receive
  \/ /\ resp = NoResp
     /\ \/ \E rid \in {1, 3}, name \in RoutineNames, exs \in ExerciseLists :
              /\ UpdateRoutine("c2", rid, name, exs)
              /\ UNCHANGED <<viewVars, editorVars, detail, listVars, searchVars>>
        \/ \E r \in WorkoutResponsesOf("c1", 1) :
              LoadGetWorkout(r) /\ UNCHANGED <<editorVars, detail, listVars, searchVars>>
        \/ \E list \in RoutineListsOf("c1") :
              LoadListRoutines(Returns(list)) /\ UNCHANGED <<editorVars, detail, listVars, searchVars>>
        \/ \E r \in {Throws(<<>>), Returns(<<>>)} :
              LoadHistory(r) /\ UNCHANGED <<editorVars, detail, listVars, searchVars>>
        \/ Reload

SpecReload == InitReload /\ [][NextReload]_vars

\* ------------------------------------------------------ claims, SpecReload
\* The view seeded from the routine exercises seq and nothing else: the
\* exercises of seq in order, each with unlogged placeholders (weight 0,
\* reps 0) numbered 1..target_sets.
IsSeedOf(view, seq) ==
  /\ Len(view) = Len(seq)
  /\ \A i \in DOMAIN seq :
       /\ view[i].exercise_id = seq[i].exercise_id
       /\ Len(view[i].sets) = seq[i].target_sets
       /\ \A k \in DOMAIN view[i].sets :
            /\ view[i].sets[k].set_number = k
            /\ view[i].sets[k].weight = 0 /\ view[i].sets[k].reps = 0
            /\ ~view[i].sets[k].logged

\* C19: reconciliation of a workout started from routine R (no set logged
\* yet) seeds the view with exactly R's routine exercises in their order,
\* in every state of the routine store: also after R was renamed and when
\* the user has another routine of the same name.
SeededFromOwnRoutine ==
  [][(loadPc = "listRoutines" /\ loadPc' # loadPc /\ ~redirected')
       => \A w \in workouts :
            (w.id = 1 /\ w.routine_id # Null)
            => \E seq \in RoutineExercisesOf(w.routine_id) : IsSeedOf(exercises', seq)
    ]_vars

\* ------------------------------------------------ further claims, SpecLoad
\* The persisted sets of the fetched workout for exercise e.
PersistedFor(e) ==
  {data.workout_sets[j] : j \in {h \in DOMAIN data.workout_sets :
                                    data.workout_sets[h].exercise_id = e}}

\* The target_sets the found routine gives for exercise e.
TargetsFor(e) ==
  {routine.exercises[j].target_sets :
     j \in {h \in DOMAIN routine.exercises : routine.exercises[h].exercise_id = e}}

\* The set list has exactly one entry per set_number of 1..t and of the
\* persisted sets of the exercise; logged marks the numbers persisted, and a
\* logged entry carries the id, weight and reps of a persisted set of its key;
\* the count displayed is the numbers persisted over all the numbers.
OverlaidOn(ex, t) ==
  LET rows == PersistedFor(ex.exercise_id)
      numbers == (1..t) \cup {x.set_number : x \in rows}
  IN /\ {ex.sets[k].set_number : k \in DOMAIN ex.sets} = numbers
     /\ Len(ex.sets) = Cardinality(numbers)
     /\ \A k \in DOMAIN ex.sets :
          /\ ex.sets[k].logged <=> \E x \in rows : x.set_number = ex.sets[k].set_number
          /\ ex.sets[k].logged =>
               \E x \in rows : /\ x.set_number = ex.sets[k].set_number
                                /\ x.id = ex.sets[k].id
                                /\ x.weight = ex.sets[k].weight
                                /\ x.reps = ex.sets[k].reps
     /\ CompletionCount(ex) =
          <<Cardinality({x.set_number : x \in rows}), Cardinality(numbers)>>

\* C20: after the overlay each exercise's set list has exactly one entry per
\* set_number of 1..target_sets and of the persisted sets of that exercise; an
\* entry is logged iff a persisted set of that exercise and set_number exists,
\* and then carries that row's weight, reps and id; the count displayed is
\* logged entries over entries. An exercise the routine does not list has
\* target_sets 0.
OverlayOneEntryPerSetNumber ==
  Reconciled =>
    \A i \in DOMAIN exercises :
      IF TargetsFor(exercises[i].exercise_id) = {}
        THEN OverlaidOn(exercises[i], 0)
        ELSE \E t \in TargetsFor(exercises[i].exercise_id) : OverlaidOn(exercises[i], t)

\* C20, reached: the routine lists e1 with 1 target set; set 1 of e1 is
\* persisted and replaces the placeholder, set 2 of e1 is persisted and is
\* appended: 2/2.
OverlayReplacedAndAppended ==
  /\ Reconciled /\ routine.found
  /\ routine.exercises = <<[exercise_id |-> "e1", target_sets |-> 1]>>
  /\ Len(data.workout_sets) = 2
  /\ {x.set_number : x \in PersistedFor("e1")} = {1, 2}
  /\ Len(exercises) = 1
  /\ CompletionCount(exercises[1]) = <<2, 2>>

\* ------------------------------------------------ further claims, SpecPage
\* The view marks set n of exercise e logged.
LoggedInView(e, n) ==
  \E i \in DOMAIN exercises : \E k \in DOMAIN exercises[i].sets :
    /\ exercises[i].exercise_id = e
    /\ exercises[i].sets[k].set_number = n
    /\ exercises[i].sets[k].logged

\* No handleLogSet call is waiting for its response.
NoLogSetInFlight == \A c \in Clients : calls[c] = NoCall

\* C21: once every logSet request in flight has completed, every set whose
\* request succeeded (its row is in workout_sets) is marked logged in the view,
\* whatever the interleaving of handleLogSet and updateSet was.
SucceededSetsStayLogged ==
  NoLogSetInFlight =>
    \A s \in workout_sets : s.workout_id = 1 => LoggedInView(s.exercise_id, s.set_number)

\* SpecView: the workout page of workout 1 (routine "Push": e1, one target
\* set, logged already) fed from the store: it loads, exercises are searched
\* and added, sets are added, and the page is opened again at any time.
ViewQueries == {"b", "ov", "pr"}

InitView ==
  /\ workouts = SeedWorkouts
  /\ workout_sets = {[id |-> 1, workout_id |-> 1, exercise_id |-> "e1", set_number |-> 1,
                      weight |-> 40, reps |-> 8]}
  /\ routines = SeedRoutines
  /\ routine_exercises = ExerciseRows(1, <<[Entry("e1", 0) EXCEPT !.target_sets = 1]>>)
  /\ next_routine_id = 3
  /\ now = 1
  /\ pending = [c \in Clients |-> Idle]
  /\ resp = NoResp
  /\ ViewInit
  /\ EditorInit
  /\ detail = NoDetail
  /\ ListInit
  /\ SearchInit

NextView ==
  \/ \E r \in WorkoutResponsesOf("c1", 1) :
        LoadGetWorkout(r) /\ UNCHANGED <<editorVars, detail, listVars, searchVars>>
  \/ \E list \in RoutineListsOf("c1") :
        LoadListRoutines(Returns(list)) /\ UNCHANGED <<editorVars, detail, listVars, searchVars>>
  \/ LoadHistory(Returns(<<>>)) /\ UNCHANGED <<editorVars, detail, listVars, searchVars>>
  \/ Reload
  \/ OpenAddExercise
  \/ CloseAddExercise
  \/ \E query \in ViewQueries : HandleSearch(query)
  \/ \E call \in searchCalls, ok \in BOOLEAN : SearchReturns(call, ok)
  \/ \E e \in ExerciseIds : Len(exercises) < MaxViewExercises /\ AddExercise(e)
  \/ \E i \in 1..MaxViewExercises :
        /\ i \in DOMAIN exercises /\ Len(exercises[i].sets) < MaxViewSets
        /\ AddSetToExercise(i)
        /\ UNCHANGED <<editorVars, detail, listVars, searchVars>>

SpecView == InitView /\ [][NextView]_vars

\* ------------------------------------------------------- claims, SpecView
\* C22: no exercise_id appears twice in the exercise list of the workout
\* view, whatever reconciliation, handleSearch with late responses, the
\* add-exercise dialog and addExercise do.
NoExerciseTwice ==
  \A i, j \in DOMAIN exercises :
    i # j => exercises[i].exercise_id # exercises[j].exercise_id

\* SpecAdd: loadWorkout as in SpecLoad, and sets are added to the exercises
\* of the page it shows.
NextAdd ==
  \/ \E r \in WorkoutResponses : LoadGetWorkout(r) /\ UNCHANGED <<editorVars, detail, listVars, searchVars>>
  \/ \E r \in RoutineResponses : LoadListRoutines(r) /\ UNCHANGED <<editorVars, detail, listVars, searchVars>>
  \/ \E r \in {Throws(<<>>), Returns(<<>>)} :
        LoadHistory(r) /\ UNCHANGED <<editorVars, detail, listVars, searchVars>>
  \/ \E i \in 1..2 :
        /\ i \in DOMAIN exercises /\ Len(exercises[i].sets) <= MaxViewSets
        /\ AddSetToExercise(i)
        /\ UNCHANGED <<editorVars, detail, listVars, searchVars>>

SpecAdd == InitLoad /\ [][NextAdd]_vars

\* -------------------------------------------------------- claims, SpecAdd
\* The highest set_number of a set list, 0 for an empty one.
MaxSetNumber(sets) ==
  IF sets = <<>> THEN 0
  ELSE CHOOSE n \in {sets[k].set_number : k \in DOMAIN sets} :
         \A k \in DOMAIN sets : sets[k].set_number <= n

\* new is old with one unlogged set appended, numbered one above the highest
\* number of old and filled with the weight and reps of a set of that number
\* (0 and 0 when old is empty).
OneSetAppended(old, new) ==
  /\ Len(new) = Len(old) + 1
  /\ SubSeq(new, 1, Len(old)) = old
  /\ ~new[Len(new)].logged
  /\ new[Len(new)].set_number = MaxSetNumber(old) + 1
  /\ IF old = <<>>
       THEN new[Len(new)].weight = 0 /\ new[Len(new)].reps = 0
       ELSE \E k \in DOMAIN old :
              /\ old[k].set_number = MaxSetNumber(old)
              /\ new[Len(new)].weight = old[k].weight
              /\ new[Len(new)].reps = old[k].reps

\* C23: addSetToExercise on an exercise appends one unlogged set numbered
\* max(existing set_numbers) + 1, filled with the weight and reps of the set
\* with the highest existing set_number, and leaves the other sets and the
\* other exercises as they are.
AddSetCopiesHighestSet ==
  [][(Shown /\ exercises' # exercises)
       => /\ Len(exercises') = Len(exercises)
          /\ \E i \in DOMAIN exercises :
               /\ OneSetAppended(exercises[i].sets, exercises'[i].sets)
               /\ exercises'[i] = [exercises[i] EXCEPT !.sets = exercises'[i].sets]
               /\ \A x \in DOMAIN exercises : x # i => exercises'[x] = exercises[x]
    ]_vars

\* ------------------------------------------------ further claims, SpecLoad
\* The first entry of the history with the maximum weight.
FirstHeaviest(history) ==
  CHOOSE h \in DOMAIN history :
    /\ \A g \in DOMAIN history : history[g].weight <= history[h].weight
    /\ \A g \in 1..(h - 1) : history[g].weight < history[h].weight

\* C24: for each exercise of the view whose history was fetched and is not
\* empty, previousBest is the weight and reps of the history entry with the
\* maximum weight, the first such entry on ties; an exercise with an empty
\* history has no previousBest.
PreviousBestIsFirstHeaviest ==
  \A j \in DOMAIN fetched :
    fetched[j].ok =>
      IF fetched[j].body = <<>>
        THEN exercises[j].previousBest = NoBest
        ELSE LET h == FirstHeaviest(fetched[j].body)
             IN exercises[j].previousBest =
                  [weight |-> fetched[j].body[h].weight, reps |-> fetched[j].body[h].reps]

\* C24, reached: the history of the first exercise has two entries of 60,
\* the hint is the first of them (60 x 5); the history of the second is
\* empty and it has no hint.
TieKeepsFirstEntry ==
  /\ Len(exercises) = 2 /\ Len(fetched) = 2
  /\ fetched[1] = Returns(<<[weight |-> 60, reps |-> 5], [weight |-> 60, reps |-> 8]>>)
  /\ exercises[1].previousBest = [weight |-> 60, reps |-> 5]
  /\ fetched[2] = Returns(<<>>)
  /\ exercises[2].previousBest = NoBest

\* ------------------------------------------------ further claims, SpecView
\* The entry addExercise makes for exercise e.
IsNewEntry(entry, e) ==
  /\ entry.exercise_id = e
  /\ entry.sets = <<[id |-> Null, set_number |-> 1, weight |-> 0, reps |-> 0,
                     logged |-> FALSE]>>
  /\ entry.previousBest = NoBest

\* C25: addExercise for an exercise not yet in the view appends, at the end
\* of the exercise list, an entry with exactly one unlogged placeholder set
\* numbered 1 (weight 0, reps 0) and no previousBest, and leaves every
\* existing entry as it is.
AddExerciseAppendsPlaceholder ==
  [][(Shown /\ Len(exercises') = Len(exercises) + 1)
       => \E e \in ExerciseIds :
            /\ e \in Range(searchResults)
            /\ (\A i \in DOMAIN exercises : exercises[i].exercise_id # e)
                 => /\ SubSeq(exercises', 1, Len(exercises)) = exercises
                    /\ IsNewEntry(exercises'[Len(exercises')], e)
    ]_vars

\* C25, reached: e2 was added after e1, whose logged set is as it was.
AddedAfterLoggedExercise ==
  /\ Shown /\ Len(exercises) = 2
  /\ exercises[1].exercise_id = "e1" /\ exercises[1].sets[1].logged
  /\ exercises[1].sets[1].weight = 40
  /\ IsNewEntry(exercises[2], "e2")

\* SpecSets: loadWorkout on a few responses (no rows, two rows of one key,
\* or set 2 alone; no routine, or a routine with e1), then every handler of the page
\* that touches the set lists: updateSet, handleLogSet, addSetToExercise and
\* addExercise after a search.
SetsRowLists ==
  {<<>>, WithIds(<<<<"e1", 1, 40, 8>>, <<"e1", 1, 60, 5>>>>, 1),
   WithIds(<<<<"e1", 2, 40, 8>>>>, 1)}

SetsWorkoutResponses ==
  {Returns([routine_name |-> name, workout_sets |-> rows]) :
     name \in {NullName, "Push"}, rows \in SetsRowLists}

SetsRoutineResponses ==
  {Returns(<<>>),
   Returns(<<[name |-> "Push", exercises |-> <<[exercise_id |-> "e1", target_sets |-> 1]>>]>>)}

NextSets ==
  \/ LogSetReturns("c1") /\ UNCHANGED <<editorVars, detail, listVars, searchVars>>
  \/ \E call \in searchCalls : SearchReturns(call, TRUE)
  \/ /\ resp = NoResp
     /\ \/ \E r \in SetsWorkoutResponses :
              LoadGetWorkout(r) /\ UNCHANGED <<editorVars, detail, listVars, searchVars>>
        \/ \E r \in SetsRoutineResponses :
              LoadListRoutines(r) /\ UNCHANGED <<editorVars, detail, listVars, searchVars>>
        \/ LoadHistory(Returns(<<>>)) /\ UNCHANGED <<editorVars, detail, listVars, searchVars>>
        \/ OpenAddExercise
        \/ searchCalls = {} /\ HandleSearch("pr")
        \/ \E e \in ExerciseIds : Len(exercises) < MaxSetsExercises /\ AddExercise(e)
        \/ \E i \in 1..MaxSetsExercises :
              /\ i \in DOMAIN exercises /\ Len(exercises[i].sets) < MaxViewSets
              /\ AddSetToExercise(i)
              /\ UNCHANGED <<editorVars, detail, listVars, searchVars>>
        \/ \E i \in 1..MaxSetsExercises, k \in 1..MaxViewSets :
              UpdateSet(i, k, "weight", 40) /\ UNCHANGED <<editorVars, detail, listVars, searchVars>>
        \/ \E i \in 1..MaxSetsExercises, k \in 1..MaxViewSets :
              UpdateSet(i, k, "reps", 8) /\ UNCHANGED <<editorVars, detail, listVars, searchVars>>
        \/ \E i \in 1..MaxSetsExercises, k \in 1..MaxViewSets :
              HandleLogSet("c1", 1, i, k) /\ UNCHANGED <<editorVars, detail, listVars, searchVars>>
        \/ LogSetWrite("c1") /\ UNCHANGED <<viewVars, editorVars, detail, listVars, searchVars>>

SpecSets == InitLoad /\ [][NextSets]_vars

\* ------------------------------------------------------- claims, SpecSets
\* C26: within each exercise of the workout view the set_numbers are
\* pairwise distinct, after reconciliation (also of rows with one key twice)
\* and after addSetToExercise, addExercise, updateSet and handleLogSet.
SetNumbersDistinct ==
  \A i \in DOMAIN exercises :
    \A k, l \in DOMAIN exercises[i].sets :
      k # l => exercises[i].sets[k].set_number # exercises[i].sets[l].set_number

\* C26, reached: the workout came with two rows of the key (e1, 1), the view
\* has one entry numbered 1 for them, and the set added after it is numbered 2.
OneEntryForTwoRowsThenAdded ==
  /\ Shown /\ Len(data.workout_sets) = 2
  /\ data.workout_sets[1].set_number = 1 /\ data.workout_sets[2].set_number = 1
  /\ Len(exercises) = 1 /\ Len(exercises[1].sets) = 2
  /\ exercises[1].sets[1].set_number = 1 /\ exercises[1].sets[1].logged
  /\ exercises[1].sets[2].set_number = 2 /\ ~exercises[1].sets[2].logged

\* SpecRound: the workout page of workout 1 (routine "Push": e1, one target
\* set) fed from the store, nothing logged yet: sets are filled in, added and
\* logged over two requests at a time, and the page is opened again at any
\* time.
RoundWeights == {40, 60}

InitRound ==
  /\ workouts = SeedWorkouts
  /\ workout_sets = {}
  /\ routines = SeedRoutines
  /\ routine_exercises = ExerciseRows(1, <<[Entry("e1", 0) EXCEPT !.target_sets = 1]>>)
  /\ next_routine_id = 3
  /\ now = 1
  /\ pending = [c \in Clients |-> Idle]
  /\ resp = NoResp
  /\ ViewInit
  /\ EditorInit
  /\ detail = NoDetail
  /\ ListInit
  /\ SearchInit

NextRound ==
  \/ \E c \in PageClients : LogSetReturns(c) /\ UNCHANGED <<editorVars, detail, listVars, searchVars>>
  \/ resp # NoResp /\ calls[resp.client] = NoCall /\ Receive
  \/ /\ resp = NoResp
     /\ \/ \E r \in WorkoutResponsesOf("c1", 1) :
              LoadGetWorkout(r) /\ UNCHANGED <<editorVars, detail, listVars, searchVars>>
        \/ \E list \in RoutineListsOf("c1") :
              LoadListRoutines(Returns(list)) /\ UNCHANGED <<editorVars, detail, listVars, searchVars>>
        \/ LoadHistory(Returns(<<>>)) /\ UNCHANGED <<editorVars, detail, listVars, searchVars>>
        \/ Reload
        \/ /\ Len(exercises) = 1 /\ Len(exercises[1].sets) < MaxViewSets
           /\ AddSetToExercise(1)
           /\ UNCHANGED <<editorVars, detail, listVars, searchVars>>
        \/ \E k \in 1..MaxViewSets, v \in RoundWeights :
              UpdateSet(1, k, "weight", v) /\ UNCHANGED <<editorVars, detail, listVars, searchVars>>
        \/ \E k \in 1..MaxViewSets :
              UpdateSet(1, k, "reps", 8) /\ UNCHANGED <<editorVars, detail, listVars, searchVars>>
        \/ \E c \in PageClients, k \in 1..MaxViewSets :
              HandleLogSet(c, 1, 1, k) /\ UNCHANGED <<editorVars, detail, listVars, searchVars>>
        \/ \E c \in PageClients :
              LogSetWrite(c) /\ UNCHANGED <<viewVars, editorVars, detail, listVars, searchVars>>

SpecRound == InitRound /\ [][NextRound]_vars

\* ------------------------------------------------------ claims, SpecRound
\* The rows of workout 1 in the table.
PersistedRows == {x \in workout_sets : x.workout_id = 1}

\* The list has an entry of exercise e numbered n, logged, with weight w and
\* reps r.
ShowsLogged(list, e, n, w, r) ==
  \E i \in DOMAIN list : \E k \in DOMAIN list[i].sets :
    /\ list[i].exercise_id = e
    /\ list[i].sets[k].set_number = n /\ list[i].sets[k].logged
    /\ list[i].sets[k].weight = w /\ list[i].sets[k].reps = r

\* Every entry of the list is a logged set or a placeholder of the routine
\* found.
OnlyTemplateAndLogged(list) ==
  \A i \in DOMAIN list : \A k \in DOMAIN list[i].sets :
    \/ list[i].sets[k].logged
    \/ \E j \in DOMAIN routine'.exercises :
         /\ routine'.exercises[j].exercise_id = list[i].exercise_id
         /\ list[i].sets[k].set_number \in 1..routine'.exercises[j].target_sets
         /\ list[i].sets[k].weight = 0 /\ list[i].sets[k].reps = 0

\* C27: reload round trip. getWorkout returns the rows persisted; after the
\* reconciliation that follows, every set whose logSet succeeded (its row is
\* persisted, with exercise e, number n, weight w and reps r) has an entry
\* numbered n of e marked logged with weight w and reps r, and the sets that
\* were added or filled in without being logged are gone: the view holds
\* logged sets and placeholders of the routine only.
ReloadShowsEveryLoggedSet ==
  [][/\ ((loadPc = "getWorkout" /\ loadPc' # loadPc /\ ~redirected')
           => Range(data'.workout_sets) = PersistedRows)
      /\ ((loadPc \in {"getWorkout", "listRoutines"} /\ loadPc' \in {"history", "returned"}
             /\ ~redirected')
           => /\ \A x \in Range(data'.workout_sets) :
                   ShowsLogged(exercises', x.exercise_id, x.set_number, x.weight, x.reps)
              /\ OnlyTemplateAndLogged(exercises'))
    ]_vars

\* ------------------------------------------------ further claims, SpecPage
\* C28: when no logSet request is in flight, Sets Logged and Total Volume of
\* the finish dialog are the count and the sum of weight * reps of the rows
\* persisted for the workout, the totals the history shows after finish.
FinishTotalsMatchPersisted ==
  NoLogSetInFlight =>
    /\ TotalSetsLogged = Cardinality({x \in workout_sets : x.workout_id = 1})
    /\ TotalVolume = SumVolume({x \in workout_sets : x.workout_id = 1})

\* ---------------------------------------------------------------- SpecList
\* SpecList: u1 has a full page of completed workouts, each started later
\* than the one before, and one in progress; u2 has one in progress; the
\* history page is open on c1 while workouts are finished on c2 and c3.
ListWorkouts ==
  {[id |-> i, user_id |-> "u1", routine_id |-> Null, routine_name |-> NullName,
    start_time |-> i, end_time |-> i, status |-> "completed"] : i \in 1..PageLimit}
  \cup
  {[id |-> PageLimit + 1, user_id |-> "u1", routine_id |-> Null,
    routine_name |-> NullName, start_time |-> PageLimit + 1, end_time |-> Null,
    status |-> "in_progress"],
   [id |-> PageLimit + 2, user_id |-> "u2", routine_id |-> Null,
    routine_name |-> NullName, start_time |-> PageLimit + 1, end_time |-> Null,
    status |-> "in_progress"]}

InitList ==
  /\ workouts = ListWorkouts
  /\ workout_sets = {[id |-> 1, workout_id |-> 1, exercise_id |-> "e1",
                      set_number |-> 1, weight |-> 100, reps |-> 10]}
  /\ routines = {}
  /\ routine_exercises = {}
  /\ next_routine_id = 1
  /\ now = PageLimit + 2
  /\ pending = [c \in Clients |-> Idle]
  /\ resp = NoResp
  /\ ViewInit
  /\ EditorInit
  /\ detail = NoDetail
  /\ ListInit
  /\ SearchInit

NextList ==
  \/ resp # NoResp /\ resp.op # "getHistory" /\ Receive
  \/ HistoryReturns
  \/ /\ resp = NoResp
     /\ UNCHANGED <<viewVars, editorVars, detail, searchVars>>
     /\ \/ LoadHistoryList("c1")
        \/ LoadMore("c1")
        \/ \E c \in {"c2", "c3"}, wid \in 1..(PageLimit + 2) :
              Finish(c, wid) /\ UNCHANGED listVars

SpecList == InitList /\ [][NextList]_vars

\* ------------------------------------------------------- claims, SpecList
\* C29: the list the history page has accumulated by loadHistory and any
\* number of loadMore calls holds every completed workout at most once,
\* also when a workout is finished between two page loads.
HistoryListsEachSessionOnce ==
  \A i, j \in DOMAIN historyList : i # j => historyList[i].id # historyList[j].id

\* -------------------------------------------------------------- SpecDelete
\* SpecDelete: u1 has a completed workout started from routine 1 that holds
\* a set and a workout in progress started from routine 3; u2 has a
\* completed workout started from routine 2. Routines are deleted while
\* sets are logged into the workout in progress and it is finished.
DeleteWorkouts ==
  {[id |-> 1, user_id |-> "u1", routine_id |-> 1, routine_name |-> "Push",
    start_time |-> 1, end_time |-> 2, status |-> "completed"],
   [id |-> 2, user_id |-> "u1", routine_id |-> 3, routine_name |-> "Pull",
    start_time |-> 2, end_time |-> Null, status |-> "in_progress"],
   [id |-> 3, user_id |-> "u2", routine_id |-> 2, routine_name |-> "Pull",
    start_time |-> 1, end_time |-> 1, status |-> "completed"]}

DeleteInputs == {<<"e1", 1, 40, 8>>, <<"e2", 1, 60, 5>>}

InitDelete ==
  /\ workouts = DeleteWorkouts
  /\ workout_sets = {[id |-> 1, workout_id |-> 1, exercise_id |-> "e1",
                      set_number |-> 1, weight |-> 100, reps |-> 10]}
  /\ routines = OwnedRoutines
  /\ routine_exercises =
       ExerciseRows(1, <<Entry("e1", 0)>>) \cup ExerciseRows(2, <<Entry("e2", 0)>>)
         \cup ExerciseRows(3, <<Entry("e2", 0), Entry("e1", 1)>>)
  /\ next_routine_id = 4
  /\ now = 2
  /\ pending = [c \in Clients |-> Idle]
  /\ resp = NoResp
  /\ ViewInit
  /\ EditorInit
  /\ detail = NoDetail
  /\ ListInit
  /\ SearchInit

NextDelete ==
  \/ Receive
  \/ /\ resp = NoResp
     /\ UNCHANGED <<viewVars, editorVars, detail, listVars, searchVars>>
     /\ \/ \E c \in OwnerClients, rid \in 1..3 : DeleteRoutine(c, rid)
        \/ \E in \in DeleteInputs : LogSetCheck("c1", 2, in[1], in[2], in[3], in[4])
        \/ LogSetWrite("c1")
        \/ \E c \in OwnerClients : Finish(c, 2)

SpecDelete == InitDelete /\ [][NextDelete]_vars

\* ------------------------------------------------------ claims, SpecDelete
\* C30: a delete of a routine that succeeded leaves every workout started
\* from it in place with its routine_name, start_time, end_time and status
\* and with routine_id null, leaves the other workouts as they were, and
\* leaves every row of workout_sets as it was.
DeleteKeepsWorkouts ==
  [][(resp' # resp /\ resp'.op = "deleteRoutine" /\ resp'.kind = "ok")
       => /\ \A w \in workouts :
               IF w.routine_id = resp'.id
                 THEN [id |-> w.id, user_id |-> w.user_id, routine_id |-> Null,
                       routine_name |-> w.routine_name, start_time |-> w.start_time,
                       end_time |-> w.end_time, status |-> w.status] \in workouts'
                 ELSE w \in workouts'
          /\ {w.id : w \in workouts'} = {w.id : w \in workouts}
          /\ Cardinality(workouts') = Cardinality(workouts)
          /\ workout_sets' = workout_sets
    ]_vars

\* C30, reached: routine 3 was deleted after a set was logged into the
\* workout started from it and the workout was finished; the workout is
\* there with its name, its times and its set, and so is workout 1 with its
\* routine_id.
DeletedRoutineOfLoggedWorkout ==
  /\ resp.op = "deleteRoutine" /\ resp.kind = "ok" /\ resp.id = 3
  /\ \E w \in workouts :
       /\ w.id = 2 /\ w.routine_id = Null /\ w.routine_name = "Pull"
       /\ w.status = "completed" /\ w.start_time = 2 /\ w.end_time = 2
  /\ \E x \in workout_sets : x.workout_id = 2
  /\ \E w \in workouts : w.id = 1 /\ w.routine_id = 1
====
